---- MODULE Spec2Model ----
(***************************************************************************)
(* A model of the 6502 core of NES-rs: the Cpu struct (hardware/cpu.rs),   *)
(* its memory and stack helpers (hardware/memory.rs), the packed status    *)
(* flags (hardware/registers.rs) and the bit helpers (utils.rs).           *)
(*                                                                         *)
(* Rust integer arithmetic is modelled with its width.  An overflowing     *)
(* `+`, `-`, `+=`, `-=` panics when the build has overflow checks (the      *)
(* debug and test profiles) and wraps when it has none (the release        *)
(* profile); overflow_checks is the build's choice.  An index outside the  *)
(* memory vector panics in every build.  A panic ends the program:         *)
(* cpu.panic records it and no operation runs afterwards.               *)
(***************************************************************************)
EXTENDS Integers, Sequences, FiniteSets, TLC

VARIABLES
    cpu,              \* the Cpu struct, plus panic and the access log
    overflow_checks,  \* TRUE: overflow panics (debug), FALSE: it wraps (release)
    history           \* the calls made so far: <<[op, arg, pre, ret], ...>>

vars == <<cpu, overflow_checks, history>>

MEM_SIZE == 65536

Byte == 0..255

----------------------------------------------------------------------------
(* Bit arithmetic on bytes.                                                *)

BitOf(v, i) == (v \div (2 ^ i)) % 2

BitAnd(a, b) ==
    LET t(i) == IF BitOf(a, i) = 1 /\ BitOf(b, i) = 1 THEN 2 ^ i ELSE 0
    IN  t(0) + t(1) + t(2) + t(3) + t(4) + t(5) + t(6) + t(7)

BitOr(a, b) ==
    LET t(i) == IF BitOf(a, i) = 1 \/ BitOf(b, i) = 1 THEN 2 ^ i ELSE 0
    IN  t(0) + t(1) + t(2) + t(3) + t(4) + t(5) + t(6) + t(7)

\* The | of two u16 values.
BitOr16(a, b) == BitOr(a % 256, b % 256) + 256 * BitOr(a \div 256, b \div 256)

BitXor(a, b) ==
    LET t(i) == IF BitOf(a, i) # BitOf(b, i) THEN 2 ^ i ELSE 0
    IN  t(0) + t(1) + t(2) + t(3) + t(4) + t(5) + t(6) + t(7)

----------------------------------------------------------------------------
(* utils.rs                                                                *)

combine_bytes(upper, lower) == BitOr16((upper * 256) % 65536, lower)

\* split_bytes is imported by memory.rs but its body is not among the
\* sources; test_save_pc and test_jsr fix it: (upper, lower) of a u16.
split_bytes(val) == <<val \div 256, val % 256>>

get_top_bit(val) == (val \div 128) = 1

check_bit(val, bit) == BitAnd(val \div (2 ^ (bit - 1)), 1) = 1

is_overflow_operands_only(res, m, n) == BitAnd(BitXor(m, n), 128) # 0

is_overflow(res, m, n) == BitAnd(BitAnd(BitXor(m, res), BitXor(n, res)), 128) # 0

----------------------------------------------------------------------------
(* registers.rs: the status flags.                                         *)

Flags_new ==
    [carry |-> FALSE, zero |-> FALSE, inter_disable |-> FALSE, decimal |-> FALSE,
     break1 |-> FALSE, break2 |-> FALSE, overflow |-> FALSE, negative |-> FALSE]

AllFlags ==
    [carry : BOOLEAN, zero : BOOLEAN, inter_disable : BOOLEAN, decimal : BOOLEAN,
     break1 : BOOLEAN, break2 : BOOLEAN, overflow : BOOLEAN, negative : BOOLEAN]

to_u8_breaks_swapped(f) ==
    LET fl == <<f.negative, f.overflow, f.break2, f.break1,
                f.decimal, f.inter_disable, f.zero, f.carry>>
        t(ind) == IF fl[ind + 1] THEN 2 ^ (7 - ind) ELSE 0
    IN  t(0) + t(1) + t(2) + t(3) + t(4) + t(5) + t(6) + t(7)

to_u8(f) ==
    LET fl == <<f.negative, f.overflow, f.break1, f.break2,
                f.decimal, f.inter_disable, f.zero, f.carry>>
        t(ind) == IF fl[ind + 1] THEN 2 ^ (7 - ind) ELSE 0
    IN  t(0) + t(1) + t(2) + t(3) + t(4) + t(5) + t(6) + t(7)

Flags_from_off_by_one(val) ==
    [carry         |-> check_bit(val, 1),
     zero          |-> check_bit(val, 2),
     inter_disable |-> check_bit(val, 3),
     decimal       |-> check_bit(val, 4),
     break2        |-> check_bit(val, 5),
     break1        |-> check_bit(val, 6),
     overflow      |-> check_bit(val, 6),
     negative      |-> check_bit(val, 7)]

Flags_from(val) ==
    [carry         |-> check_bit(val, 1),
     zero          |-> check_bit(val, 2),
     inter_disable |-> check_bit(val, 3),
     decimal       |-> check_bit(val, 4),
     break2        |-> check_bit(val, 5),
     break1        |-> check_bit(val, 6),
     overflow      |-> check_bit(val, 7),
     negative      |-> check_bit(val, 8)]

set_breaks(f) == [f EXCEPT !.break1 = TRUE, !.break2 = TRUE]

reset_breaks(f) == [f EXCEPT !.break1 = FALSE, !.break2 = FALSE]

set_for_cmp_strict(f, reg, val) ==
    [f EXCEPT !.carry = (reg > val), !.zero = (reg = val), !.negative = (reg < val)]

set_for_cmp(f, reg, val) ==
    [f EXCEPT !.carry = (reg >= val), !.zero = (reg = val), !.negative = (reg < val)]

----------------------------------------------------------------------------
(* The Cpu struct.  memory holds the cells that are not zero: the vector   *)
(* is zero-filled at construction, so a cell outside the domain reads 0.   *)
(* sp is a usize: it is held modulo 2^64 in the window around 0, so that   *)
(* usize::MAX is -1, usize::MAX - 1 is -2, and so on.                      *)

Cpu_new ==
    [memory |-> [a \in {} |-> 0], rega |-> 0, regx |-> 0, regy |-> 0, flags |-> Flags_new,
     pc |-> 0, cycles_taken |-> 0, sp |-> 255,
     panic |-> "none", log |-> <<>>]

MemRead(mem, a) == IF a \in DOMAIN mem THEN mem[a] ELSE 0

MemWrite(mem, a, v) ==
    IF v = 0 THEN [x \in (DOMAIN mem) \ {a} |-> mem[x]]
    ELSE [x \in (DOMAIN mem) \cup {a} |-> IF x = a THEN v ELSE mem[x]]

\* A value-returning method gives back the Cpu and the value.
Ret(c, v) == [c |-> c, val |-> v]

\* why is "overflow" (an arithmetic overflow in a build that checks it),
\* "bounds" (an index outside memory), "addr_mode" or "register" (the panic!
\* of a handler given a mode or register it has no arm for) or "opcode" (cry).
Panic(c, why) == IF c.panic = "none" THEN [c EXCEPT !.panic = why] ELSE c

Panicked(c) == c.panic # "none"

Logged(c, kind, a) == [c EXCEPT !.log = Append(@, <<kind, a>>)]

\* The result of an integer operation whose exact value is exact, in a type
\* of range lo..hi: the Cpu panics on overflow when the build checks it.
Checked(c, exact, lo, hi) ==
    IF Panicked(c) \/ (exact >= lo /\ exact <= hi) \/ ~overflow_checks THEN c
    ELSE Panic(c, "overflow")

\* usize arithmetic on sp in the window representation: `sp + 1` overflows
\* at usize::MAX (-1) and `sp - 1` at 0.
UsizeInc(c, v) ==
    IF Panicked(c) \/ v # -1 \/ ~overflow_checks THEN c ELSE Panic(c, "overflow")

UsizeDec(c, v) ==
    IF Panicked(c) \/ v # 0 \/ ~overflow_checks THEN c ELSE Panic(c, "overflow")

\* self.memory[a] as a value: out of bounds panics.
Index(c, kind, a) ==
    IF Panicked(c) THEN Ret(c, 0)
    ELSE IF a < 0 \/ a >= MEM_SIZE THEN Ret(Panic(c, "bounds"), 0)
    ELSE Ret(Logged(c, kind, a), MemRead(c.memory, a))

\* self.memory[a] = v
IndexSet(c, kind, a, v) ==
    IF Panicked(c) THEN c
    ELSE IF a < 0 \/ a >= MEM_SIZE THEN Panic(c, "bounds")
    ELSE [Logged(c, kind, a) EXCEPT !.memory = MemWrite(@, a, v)]

\* Rust's `let x = v;`: v is evaluated once and F sees its value.
Let(v, F(_)) == CHOOSE r \in {F(x) : x \in {v}} : TRUE

\* A field assignment that a panicked Cpu no longer makes.
Assign(c, d) == IF Panicked(c) THEN c ELSE d

----------------------------------------------------------------------------
(* memory.rs: the stack.                                                   *)

peek_stack(c) ==
    Let(UsizeInc(c, c.sp), LAMBDA c1 :
    Index(c1, "stack_read", c.sp + 1))

push_stack(c, item) ==
    Let(IndexSet(c, "stack_write", c.sp, item), LAMBDA c1 :
    Let(UsizeDec(c1, c1.sp), LAMBDA c2 :
    Assign(c2, [c2 EXCEPT !.sp = @ - 1])))

pop_stack(c) ==
    Let(peek_stack(c), LAMBDA val :
    Let(UsizeInc(val.c, val.c.sp), LAMBDA c2 :
    Ret(Assign(c2, [c2 EXCEPT !.sp = @ + 1]), val.val)))

----------------------------------------------------------------------------
(* memory.rs: the instruction stream and the addressing modes.             *)

fetch_next_byte(c) ==
    Let(Checked(c, c.pc + 1, 0, 65535), LAMBDA c1 :
    Let(Assign(c1, [c1 EXCEPT !.pc = (@ + 1) % 65536]), LAMBDA c2 :
    Index(c2, "fetch", c2.pc)))

fetch_two_bytes(c) ==
    LET p1 == (c.pc + 1) % 65536
        p2 == (c.pc + 2) % 65536
    IN  Let(Checked(Checked(c, c.pc + 1, 0, 65535), c.pc + 2, 0, 65535), LAMBDA c1 :
        Let(Assign(c1, [c1 EXCEPT !.pc = (@ + 2) % 65536]), LAMBDA c2 :
        Let(Index(c2, "fetch", p1), LAMBDA r1 :
        Let(Index(r1.c, "fetch", p2), LAMBDA r2 :
        Ret(r2.c, <<r1.val, r2.val>>)))))

fetch_zp(c) == fetch_next_byte(c)

fetch_zpx(c) ==
    Let(fetch_next_byte(c), LAMBDA r :
    Ret(r.c, (r.val + c.regx) % 256))

fetch_abs_low_first(c) ==
    Let(fetch_two_bytes(c), LAMBDA r :
    LET lower == r.val[1]
        upper == r.val[2]
    IN  Ret(r.c, combine_bytes(upper, lower)))

fetch_abs(c) ==
    Let(fetch_two_bytes(c), LAMBDA r :
    LET upper == r.val[1]
        lower == r.val[2]
    IN  Ret(r.c, combine_bytes(upper, lower)))

fetch_absx(c) ==
    Let(fetch_two_bytes(c), LAMBDA r :
    LET upper == r.val[1]
        lower == r.val[2]
        addr  == combine_bytes(upper, lower)
    IN  Ret(r.c, addr + c.regx))

fetch_absy(c) ==
    Let(fetch_two_bytes(c), LAMBDA r :
    LET upper == r.val[1]
        lower == r.val[2]
        addr  == combine_bytes(upper, lower)
    IN  Ret(r.c, addr + c.regy))

fetch_indirect(c) ==
    Let(fetch_two_bytes(c), LAMBDA r :
    Let(combine_bytes(r.val[1], r.val[2]), LAMBDA addr :
    Let(Index(r.c, "read", addr), LAMBDA lower_base :
    Let(Index(lower_base.c, "read", addr + 1), LAMBDA upper_base :
    Ret(upper_base.c, combine_bytes(upper_base.val, lower_base.val))))))

fetch_indirectx_one_level(c) ==
    Let(fetch_next_byte(c), LAMBDA r :
    Let((r.val + c.regx) % 256, LAMBDA base :
    Let(Index(r.c, "read", base + 1), LAMBDA upper :
    Let(Index(upper.c, "read", base), LAMBDA lower :
    Ret(lower.c, combine_bytes(upper.val, lower.val))))))

fetch_indirectx(c) ==
    Let(fetch_next_byte(c), LAMBDA r :
    Let(Index(r.c, "read", (r.val + c.regx) % 256), LAMBDA base :
    Let(Index(base.c, "read", base.val + 1), LAMBDA upper :
    Let(Index(upper.c, "read", base.val), LAMBDA lower :
    Ret(lower.c, combine_bytes(upper.val, lower.val))))))

fetch_indirecty(c) ==
    Let(fetch_next_byte(c), LAMBDA r :
    Let(Index(r.c, "read", (r.val + c.regy) % 256), LAMBDA base :
    Let(Index(base.c, "read", base.val + 1), LAMBDA upper :
    Let(Index(upper.c, "read", base.val), LAMBDA lower :
    Ret(lower.c, combine_bytes(upper.val, lower.val))))))

save_pc_high_first(c, dec) ==
    LET val   == IF dec THEN (c.pc - 1) % 65536 ELSE c.pc
        upper == split_bytes(val)[1]
        lower == split_bytes(val)[2]
    IN  Let(IF dec THEN Checked(c, c.pc - 1, 0, 65535) ELSE c, LAMBDA c1 :
        Let(push_stack(c1, upper), LAMBDA c2 :
        push_stack(c2, lower)))

save_pc(c, dec) ==
    LET val   == IF dec THEN (c.pc - 1) % 65536 ELSE c.pc
        upper == split_bytes(val)[1]
        lower == split_bytes(val)[2]
    IN  Let(IF dec THEN Checked(c, c.pc - 1, 0, 65535) ELSE c, LAMBDA c1 :
        Let(push_stack(c1, lower), LAMBDA c2 :
        push_stack(c2, upper)))

save_status(c) == push_stack(c, to_u8(c.flags))

pull_pc_low_first(c) ==
    Let(pop_stack(c), LAMBDA lower :
    Let(pop_stack(lower.c), LAMBDA upper :
    Assign(upper.c, [upper.c EXCEPT !.pc = combine_bytes(upper.val, lower.val)])))

pull_pc(c) ==
    Let(pop_stack(c), LAMBDA upper :
    Let(pop_stack(upper.c), LAMBDA lower :
    Assign(lower.c, [lower.c EXCEPT !.pc = combine_bytes(upper.val, lower.val)])))

----------------------------------------------------------------------------
(* cpu.rs: operands.                                                       *)

get_address(c, mode) ==
    CASE mode = "ZeroPage"  -> fetch_zp(c)
      [] mode = "ZeroPageX" -> fetch_zpx(c)
      [] mode = "Absolute"  -> fetch_abs(c)
      [] mode = "AbsoluteX" -> fetch_absx(c)
      [] mode = "AbsoluteY" -> fetch_absy(c)
      [] mode = "IndirectX" -> fetch_indirectx(c)
      [] mode = "IndirectY" -> fetch_indirecty(c)
      [] mode = "Indirect"  -> fetch_indirect(c)
      [] OTHER              -> Ret(Panic(c, "addr_mode"), 0)

get_value(c, mode) ==
    IF mode = "Immediate" THEN fetch_next_byte(c)
    ELSE Let(get_address(c, mode), LAMBDA addr :
         Index(addr.c, "read", addr.val))

\* flags.zero = val == 0; flags.negative = get_top_bit(val)
SetZN(c, val) ==
    Assign(c, [Logged(c, "flags", 0) EXCEPT !.flags.zero = (val = 0),
                                             !.flags.negative = get_top_bit(val)])

\* flags.zero, flags.negative and flags.carry, in the order of the handlers
SetZNC(c, val, carry) ==
    Assign(c, [Logged(c, "flags", 0) EXCEPT !.flags.zero = (val = 0),
                                             !.flags.negative = get_top_bit(val),
                                             !.flags.carry = carry])

\* The register a Registers or TransferOption value names.
RegOf(c, reg) ==
    CASE reg = "A" -> c.rega
      [] reg = "X" -> c.regx
      [] reg = "Y" -> c.regy
      [] reg = "S" -> c.sp % 256

SetReg(c, reg, val) ==
    Assign(c, CASE reg = "A" -> [c EXCEPT !.rega = val]
                [] reg = "X" -> [c EXCEPT !.regx = val]
                [] reg = "Y" -> [c EXCEPT !.regy = val]
                [] reg = "S" -> [c EXCEPT !.sp = val])

----------------------------------------------------------------------------
(* cpu.rs: the handlers.                                                   *)

transfer_reg_always_flags(c, from, to) ==
    Let(RegOf(c, from), LAMBDA val :
    Let(SetReg(c, to, val), LAMBDA c1 :
    SetZN(c1, val)))

store_reg_sets_flags(c, mode, reg) ==
    Let(get_address(c, mode), LAMBDA addr :
    Let(IndexSet(addr.c, "write", addr.val, RegOf(c, reg)), LAMBDA c1 :
    SetZN(c1, RegOf(c, reg))))

transfer_reg(c, from, to) ==
    Let(RegOf(c, from), LAMBDA val :
    Let(SetReg(c, to, val), LAMBDA c1 :
    IF to # "S" THEN SetZN(c1, val) ELSE c1))

store_reg(c, mode, reg) ==
    Let(get_address(c, mode), LAMBDA addr :
    IndexSet(addr.c, "write", addr.val, RegOf(c, reg)))

sbc(c, mode) ==
    Let(get_value(c, mode), LAMBDA val :
    LET nc    == IF c.flags.carry THEN 0 ELSE 1
        rhs   == (val.val + nc) % 256
        res   == (c.rega - rhs) % 256
        carry == c.rega < rhs
    IN  Let(Checked(val.c, val.val + nc, 0, 255), LAMBDA c1 :
        Assign(c1, [Logged(c1, "flags", 0) EXCEPT
                      !.flags.overflow = is_overflow(res, c.rega, val.val),
                      !.rega = res,
                      !.flags.carry = carry,
                      !.flags.zero = (res = 0),
                      !.flags.negative = get_top_bit(res)])))

pull_register_no_flags(c, pull_accum) ==
    Let(pop_stack(c), LAMBDA popped :
    IF pull_accum
    THEN SetReg(popped.c, "A", popped.val)
    ELSE Assign(popped.c, [Logged(popped.c, "flags", 0) EXCEPT
                             !.flags = Flags_from(popped.val)]))

pull_register(c, pull_accum) ==
    Let(pop_stack(c), LAMBDA popped :
    IF pull_accum
    THEN Let(SetReg(popped.c, "A", popped.val), LAMBDA c1 : SetZN(c1, popped.val))
    ELSE Assign(popped.c, [Logged(popped.c, "flags", 0) EXCEPT
                             !.flags = Flags_from(popped.val)]))

rti(c) ==
    Let(pull_register(c, FALSE), LAMBDA c1 :
    pull_pc(c1))

\* asl, lsr and ror_or_rol have one arm for rega and one for memory[addr],
\* and panic on any other mode.  ShiftOperand is the operand of either arm:
\* where it is (addr, for a memory arm) and the byte it holds.
ShiftModes == {"Accumulator", "ZeroPage", "ZeroPageX", "Absolute", "AbsoluteX"}

ShiftOperand(c, mode) ==
    IF mode = "Accumulator" THEN [c |-> c, addr |-> 0, val |-> c.rega]
    ELSE Let(get_address(c, mode), LAMBDA addr :
         Let(Index(addr.c, "read", addr.val), LAMBDA old :
         [c |-> old.c, addr |-> addr.val, val |-> old.val]))

SetShiftOperand(c, mode, addr, val) ==
    IF mode = "Accumulator" THEN SetReg(c, "A", val)
    ELSE IndexSet(c, "write", addr, val)

ror_or_rol(c, mode, is_ror) ==
    IF mode \notin ShiftModes THEN Panic(c, "addr_mode")
    ELSE
    Let(ShiftOperand(c, mode), LAMBDA old :
    LET old_carry == c.flags.carry
        carry   == IF is_ror THEN check_bit(old.val, 1) ELSE get_top_bit(old.val)
        shifted == IF is_ror THEN old.val \div 2 ELSE (old.val * 2) % 256
        val     == IF ~old_carry THEN shifted
                   ELSE IF mode = "Accumulator"
                        THEN BitOr(shifted, IF is_ror THEN 128 ELSE 1)
                        ELSE BitAnd(shifted, IF is_ror THEN 128 ELSE 1)
    IN  Let(SetShiftOperand(old.c, mode, old.addr, val), LAMBDA c1 :
        SetZNC(c1, val, carry)))

or(c, mode) ==
    Let(get_value(c, mode), LAMBDA val :
    Let(BitOr(c.rega, val.val), LAMBDA res :
    Let(SetReg(val.c, "A", res), LAMBDA c1 :
    SetZN(c1, res))))

lsr(c, mode) ==
    IF mode \notin ShiftModes THEN Panic(c, "addr_mode")
    ELSE
    Let(ShiftOperand(c, mode), LAMBDA old :
    LET carry == check_bit(old.val, 1)
        val   == old.val \div 2
    IN  Let(SetShiftOperand(old.c, mode, old.addr, val), LAMBDA c1 :
        SetZNC(c1, val, carry)))

ld_reg_no_flags(c, mode, reg) ==
    Let(get_value(c, mode), LAMBDA val :
    SetReg(val.c, reg, val.val))

ld_reg(c, mode, reg) ==
    Let(get_value(c, mode), LAMBDA val :
    Let(SetReg(val.c, reg, val.val), LAMBDA c1 :
    SetZN(c1, val.val)))

jsr(c) ==
    Let(save_pc(c, TRUE), LAMBDA c1 :
    Let(get_address(c1, "Absolute"), LAMBDA addr :
    Assign(addr.c, [addr.c EXCEPT !.pc = addr.val % 65536])))

jmp(c, mode) ==
    Let(get_address(c, mode), LAMBDA addr :
    Assign(addr.c, [addr.c EXCEPT !.pc = addr.val % 65536]))

inc_reg(c, reg) ==
    IF reg = "A" THEN Panic(c, "register")
    ELSE LET affected == (RegOf(c, reg) + 1) % 256
         IN  Let(Checked(c, RegOf(c, reg) + 1, 0, 255), LAMBDA c1 :
             Let(SetReg(c1, reg, affected), LAMBDA c2 :
             SetZN(c2, affected)))

inc(c, mode) ==
    Let(get_address(c, mode), LAMBDA addr :
    Let(Index(addr.c, "read", addr.val), LAMBDA old :
    Let(Checked(old.c, old.val + 1, 0, 255), LAMBDA c1 :
    Let(IndexSet(c1, "write", addr.val, (old.val + 1) % 256), LAMBDA c2 :
    SetZN(c2, (old.val + 1) % 256)))))

eor(c, mode) ==
    Let(get_value(c, mode), LAMBDA value :
    Let(BitXor(c.rega, value.val), LAMBDA res :
    Let(SetReg(value.c, "A", res), LAMBDA c1 :
    SetZN(c1, res))))

dec_reg(c, reg) ==
    IF reg = "A" THEN Panic(c, "register")
    ELSE LET affected == (RegOf(c, reg) - 1) % 256
         IN  Let(Checked(c, RegOf(c, reg) - 1, 0, 255), LAMBDA c1 :
             Let(SetReg(c1, reg, affected), LAMBDA c2 :
             SetZN(c2, affected)))

dec(c, mode) ==
    Let(get_address(c, mode), LAMBDA addr :
    Let(Index(addr.c, "read", addr.val), LAMBDA old :
    Let(Checked(old.c, old.val - 1, 0, 255), LAMBDA c1 :
    Let(IndexSet(c1, "write", addr.val, (old.val - 1) % 256), LAMBDA c2 :
    SetZN(c2, (old.val - 1) % 256)))))

cmp(c, mode, register) ==
    Let(get_value(c, mode), LAMBDA val :
    LET to_compare == RegOf(c, register)
    IN  Assign(val.c, [Logged(val.c, "flags", 0) EXCEPT
                         !.flags = set_for_cmp(@, to_compare, val.val)]))

Branch_on_clear(c, taken) ==
    Let(fetch_next_byte(c), LAMBDA displace :
    IF taken THEN displace.c
    ELSE Let(Checked(displace.c, displace.c.pc + displace.val, 0, 65535), LAMBDA c1 :
         Assign(c1, [c1 EXCEPT !.pc = (@ + displace.val) % 65536])))

\* The body the eight branch handlers share: the displacement byte, taken
\* as a u16, is added to pc when the handler's condition holds.
Branch(c, taken) ==
    Let(fetch_next_byte(c), LAMBDA displace :
    IF ~taken THEN displace.c
    ELSE Let(Checked(displace.c, displace.c.pc + displace.val, 0, 65535), LAMBDA c1 :
         Assign(c1, [c1 EXCEPT !.pc = (@ + displace.val) % 65536])))

bvs_or_bvc(c, check_for_set) == Branch(c, c.flags.overflow = check_for_set)

bpl(c) == Branch(c, ~c.flags.negative)

bmi(c) == Branch(c, c.flags.negative)

beq_or_bne(c, should_be_zero) == Branch(c, c.flags.zero = should_be_zero)

bcc_or_bcs(c, branch_on_set) == Branch(c, c.flags.carry = branch_on_set)

brk_breaks_first(c) ==
    Let(save_pc(c, FALSE), LAMBDA c1 :
    Let(Assign(c1, [c1 EXCEPT !.flags = set_breaks(@)]), LAMBDA cb :
    Let(save_status(cb), LAMBDA c2 :
    Let(Index(c2, "read", 65534), LAMBDA lower :
    Let(Index(lower.c, "read", 65535), LAMBDA upper :
    Let(Assign(upper.c, [upper.c EXCEPT !.pc = combine_bytes(upper.val, lower.val)]),
        LAMBDA c3 :
    Assign(c3, [Logged(c3, "flags", 0) EXCEPT !.flags = set_breaks(@)])))))))

brk(c) ==
    Let(save_pc(c, FALSE), LAMBDA c1 :
    Let(save_status(c1), LAMBDA c2 :
    Let(Index(c2, "read", 65534), LAMBDA lower :
    Let(Index(lower.c, "read", 65535), LAMBDA upper :
    Let(Assign(upper.c, [upper.c EXCEPT !.pc = combine_bytes(upper.val, lower.val)]),
        LAMBDA c3 :
    Assign(c3, [Logged(c3, "flags", 0) EXCEPT !.flags = set_breaks(@)]))))))

bit(c, mode) ==
    Let(get_value(c, mode), LAMBDA val :
    LET res == BitAnd(c.rega, val.val)
    IN  Assign(val.c, [Logged(val.c, "flags", 0) EXCEPT
                         !.flags.zero = (res = 0),
                         !.flags.overflow = check_bit(val.val, 6),
                         !.flags.negative = check_bit(val.val, 7)]))

asl(c, mode) ==
    IF mode \notin ShiftModes THEN Panic(c, "addr_mode")
    ELSE
    Let(ShiftOperand(c, mode), LAMBDA old :
    LET carry == get_top_bit(old.val)
        val   == (old.val * 2) % 256
    IN  Let(SetShiftOperand(old.c, mode, old.addr, val), LAMBDA c1 :
        SetZNC(c1, val, carry)))

and(c, mode) ==
    Let(get_value(c, mode), LAMBDA val :
    Let(BitAnd(c.rega, val.val), LAMBDA res :
    Let(SetReg(val.c, "A", res), LAMBDA c1 :
    SetZN(c1, res))))

adc(c, mode) ==
    Let(get_value(c, mode), LAMBDA val :
    LET cin   == IF c.flags.carry THEN 1 ELSE 0
        rhs   == (val.val + cin) % 256
        res   == (c.rega + rhs) % 256
        carry == c.rega + rhs > 255
    IN  Let(Checked(val.c, val.val + cin, 0, 255), LAMBDA c1 :
        Assign(c1, [Logged(c1, "flags", 0) EXCEPT
                      !.flags.overflow = is_overflow(res, c.rega, val.val),
                      !.rega = res,
                      !.flags.carry = carry,
                      !.flags.zero = (res = 0),
                      !.flags.negative = get_top_bit(res)])))

\* self.flags.<name> = value, the arms of CLC, SEC, CLD, SED, CLI, SEI, CLV
SetFlag(c, name, value) ==
    Assign(c, [Logged(c, "flags", 0) EXCEPT !.flags[name] = value])

----------------------------------------------------------------------------
(* instruction.rs: the Ops enum, each variant with its discriminant, the   *)
(* opcode byte FromPrimitive::from_u8 decodes to it.                       *)

Ops ==
    { <<"AdcI", 105>>, <<"AdcZp", 101>>, <<"AdcZpX", 117>>, <<"AdcAbs", 109>>, <<"AdcAbsX", 125>>,
      <<"AdcAbsY", 121>>, <<"AdcIndX", 97>>, <<"AdcIndY", 113>>, <<"AndI", 41>>, <<"AndZp", 37>>,
      <<"AndZpX", 53>>, <<"AndAbs", 45>>, <<"AndAbsX", 61>>, <<"AndAbsY", 57>>, <<"AndIndX", 33>>,
      <<"AndIndY", 49>>, <<"AslAccum", 10>>, <<"AslZp", 6>>, <<"AslZpX", 22>>, <<"AslAbs", 14>>,
      <<"AslAbsX", 30>>, <<"Bcc", 144>>, <<"Bcs", 176>>, <<"Beq", 240>>, <<"Bne", 208>>,
      <<"Bmi", 48>>, <<"Bpl", 16>>, <<"Bvc", 80>>, <<"Bvs", 112>>, <<"BitZp", 36>>,
      <<"BitAbs", 44>>, <<"Brk", 0>>, <<"Clc", 24>>, <<"Cld", 216>>, <<"Cli", 88>>,
      <<"Clv", 184>>, <<"CmpI", 201>>, <<"CmpZp", 197>>, <<"CmpZpX", 213>>, <<"CmpAbs", 205>>,
      <<"CmpAbsX", 221>>, <<"CmpAbsY", 217>>, <<"CmpIndX", 193>>, <<"CmpIndY", 209>>, <<"CmpXI", 224>>,
      <<"CmpXZp", 228>>, <<"CmpXAbs", 236>>, <<"CmpYI", 192>>, <<"CmpYZp", 196>>, <<"CmpYAbs", 204>>,
      <<"DecZp", 198>>, <<"DecZpX", 214>>, <<"DecAbs", 206>>, <<"DecAbsX", 222>>, <<"DecX", 202>>,
      <<"DecY", 136>>, <<"IncZp", 230>>, <<"IncZpX", 246>>, <<"IncAbs", 238>>, <<"IncAbsX", 254>>,
      <<"IncX", 232>>, <<"IncY", 200>>, <<"EORI", 73>>, <<"EORZp", 69>>, <<"EORZpX", 85>>,
      <<"EORAbs", 77>>, <<"EORAbsX", 93>>, <<"EORAbsY", 89>>, <<"EORIndX", 65>>, <<"EORIndY", 81>>,
      <<"JmpAbs", 76>>, <<"JmpInd", 108>>, <<"Jsr", 32>>, <<"LdaI", 169>>, <<"LdaZp", 165>>,
      <<"LdaZpX", 181>>, <<"LdaAbs", 173>>, <<"LdaAbsX", 189>>, <<"LdaAbsY", 185>>, <<"LdaIndX", 161>>,
      <<"LdaIndY", 177>>, <<"LdxI", 162>>, <<"LdxZp", 166>>, <<"LdxZpY", 182>>, <<"LdxAbs", 174>>,
      <<"LdxAbsY", 190>>, <<"LdyI", 160>>, <<"LdyZp", 164>>, <<"LdyZpX", 180>>, <<"LdyAbs", 172>>,
      <<"LdyAbsX", 188>>, <<"LsrAccum", 74>>, <<"LsrZp", 70>>, <<"LsrZpX", 86>>, <<"LsrAbs", 78>>,
      <<"LsrAbsX", 94>>, <<"Nop", 234>>, <<"ORI", 9>>, <<"ORZp", 5>>, <<"ORZpX", 21>>,
      <<"ORAbs", 13>>, <<"ORAbsX", 29>>, <<"ORAbsY", 25>>, <<"ORIndX", 1>>, <<"ORIndY", 17>>,
      <<"Pha", 72>>, <<"Php", 8>>, <<"Pla", 104>>, <<"Plp", 40>>, <<"RolAccum", 42>>,
      <<"RolZp", 38>>, <<"RolZpX", 54>>, <<"RolAbs", 46>>, <<"RolAbsX", 62>>, <<"RorAccum", 106>>,
      <<"RorZp", 102>>, <<"RorZpX", 118>>, <<"RorAbs", 110>>, <<"RorAbsX", 126>>, <<"Rti", 64>>,
      <<"Rts", 96>>, <<"SbcI", 233>>, <<"SbcZp", 229>>, <<"SbcZpX", 245>>, <<"SbcAbs", 237>>,
      <<"SbcAbsX", 253>>, <<"SbcAbsY", 249>>, <<"SbcIndX", 225>>, <<"SbcIndY", 241>>, <<"Sec", 56>>,
      <<"Sed", 248>>, <<"Sei", 120>>, <<"StaZp", 133>>, <<"StaZpX", 149>>, <<"StaAbs", 141>>,
      <<"StaAbsX", 157>>, <<"StaAbsY", 153>>, <<"StaIndX", 129>>, <<"StaIndY", 145>>, <<"StxZp", 134>>,
      <<"StxZpY", 150>>, <<"StxAbs", 142>>, <<"StyZp", 132>>, <<"StyZpX", 148>>, <<"StyAbs", 140>>,
      <<"Tax", 170>>, <<"Tay", 168>>, <<"Tsx", 186>>, <<"Txa", 138>>, <<"Txs", 154>>,
      <<"Tya", 152>> }

AllOps == {o[1] : o \in Ops}

Ops_from_u8_or_nop(byte) ==
    IF \E o \in Ops : o[2] = byte THEN (CHOOSE o \in Ops : o[2] = byte)[1] ELSE "Nop"

\* FromPrimitive::from_u8: the variant of a byte, "None" for no variant.
Ops_from_u8(byte) ==
    IF \E o \in Ops : o[2] = byte THEN (CHOOSE o \in Ops : o[2] = byte)[1] ELSE "None"

(* cpu.rs, exec_instruction: the arm of each variant, as the handler it    *)
(* calls and the arguments it passes.                                      *)

Arms ==
    { <<"AdcI", "adc", "Immediate", "-">>, <<"AdcZp", "adc", "ZeroPage", "-">>,
      <<"AdcZpX", "adc", "ZeroPageX", "-">>, <<"AdcAbs", "adc", "Absolute", "-">>,
      <<"AdcAbsX", "adc", "AbsoluteX", "-">>, <<"AdcAbsY", "adc", "AbsoluteY", "-">>,
      <<"AdcIndX", "adc", "IndirectX", "-">>, <<"AdcIndY", "adc", "IndirectY", "-">>,
      <<"AndI", "and", "Immediate", "-">>, <<"AndZp", "and", "ZeroPage", "-">>,
      <<"AndZpX", "and", "ZeroPageX", "-">>, <<"AndAbs", "and", "Absolute", "-">>,
      <<"AndAbsX", "and", "AbsoluteX", "-">>, <<"AndAbsY", "and", "AbsoluteY", "-">>,
      <<"AndIndX", "and", "IndirectX", "-">>, <<"AndIndY", "and", "IndirectY", "-">>,
      <<"AslAccum", "asl", "Accumulator", "-">>, <<"AslZp", "asl", "ZeroPage", "-">>,
      <<"AslZpX", "asl", "ZeroPageX", "-">>, <<"AslAbs", "asl", "Absolute", "-">>,
      <<"AslAbsX", "asl", "AbsoluteX", "-">>, <<"Bcc", "bcc_or_bcs", "false", "-">>,
      <<"Bcs", "bcc_or_bcs", "true", "-">>, <<"Beq", "beq_or_bne", "true", "-">>,
      <<"Bne", "beq_or_bne", "false", "-">>, <<"Bmi", "bmi", "-", "-">>,
      <<"Bpl", "bpl", "-", "-">>, <<"Bvc", "bvs_or_bvc", "false", "-">>,
      <<"Bvs", "bvs_or_bvc", "true", "-">>, <<"BitZp", "bit", "ZeroPage", "-">>,
      <<"BitAbs", "bit", "Absolute", "-">>, <<"Brk", "brk", "-", "-">>,
      <<"Clc", "flags.carry", "false", "-">>, <<"Cld", "flags.decimal", "false", "-">>,
      <<"Cli", "flags.inter_disable", "false", "-">>, <<"Clv", "flags.overflow", "false", "-">>,
      <<"CmpI", "cmp", "Immediate", "A">>, <<"CmpZp", "cmp", "ZeroPage", "A">>,
      <<"CmpZpX", "cmp", "ZeroPageX", "A">>, <<"CmpAbs", "cmp", "Absolute", "A">>,
      <<"CmpAbsX", "cmp", "AbsoluteX", "A">>, <<"CmpAbsY", "cmp", "AbsoluteY", "A">>,
      <<"CmpIndX", "cmp", "IndirectX", "A">>, <<"CmpIndY", "cmp", "IndirectY", "A">>,
      <<"CmpXI", "cmp", "Immediate", "X">>, <<"CmpXZp", "cmp", "ZeroPage", "X">>,
      <<"CmpXAbs", "cmp", "Absolute", "X">>, <<"CmpYI", "cmp", "Immediate", "Y">>,
      <<"CmpYZp", "cmp", "ZeroPage", "Y">>, <<"CmpYAbs", "cmp", "Absolute", "Y">>,
      <<"DecZp", "dec", "ZeroPage", "-">>, <<"DecZpX", "dec", "ZeroPageX", "-">>,
      <<"DecAbs", "dec", "Absolute", "-">>, <<"DecAbsX", "dec", "AbsoluteX", "-">>,
      <<"DecX", "dec_reg", "X", "-">>, <<"DecY", "dec_reg", "Y", "-">>,
      <<"IncZp", "inc", "ZeroPage", "-">>, <<"IncZpX", "inc", "ZeroPageX", "-">>,
      <<"IncAbs", "inc", "Absolute", "-">>, <<"IncAbsX", "inc", "AbsoluteX", "-">>,
      <<"IncX", "inc_reg", "X", "-">>, <<"IncY", "inc_reg", "Y", "-">>,
      <<"EORI", "eor", "Immediate", "-">>, <<"EORZp", "eor", "ZeroPage", "-">>,
      <<"EORZpX", "eor", "ZeroPageX", "-">>, <<"EORAbs", "eor", "Absolute", "-">>,
      <<"EORAbsX", "eor", "AbsoluteX", "-">>, <<"EORAbsY", "eor", "AbsoluteY", "-">>,
      <<"EORIndX", "eor", "IndirectX", "-">>, <<"EORIndY", "eor", "IndirectY", "-">>,
      <<"JmpAbs", "jmp", "Absolute", "-">>, <<"JmpInd", "jmp", "Indirect", "-">>,
      <<"Jsr", "jsr", "-", "-">>, <<"LdaI", "ld_reg", "Immediate", "A">>,
      <<"LdaZp", "ld_reg", "ZeroPage", "A">>, <<"LdaZpX", "ld_reg", "ZeroPageX", "A">>,
      <<"LdaAbs", "ld_reg", "Absolute", "A">>, <<"LdaAbsX", "ld_reg", "AbsoluteX", "A">>,
      <<"LdaAbsY", "ld_reg", "AbsoluteY", "A">>, <<"LdaIndX", "ld_reg", "IndirectX", "A">>,
      <<"LdaIndY", "ld_reg", "IndirectY", "A">>, <<"LdxI", "ld_reg", "Immediate", "X">>,
      <<"LdxZp", "ld_reg", "ZeroPage", "X">>, <<"LdxZpY", "ld_reg", "ZeroPageY", "X">>,
      <<"LdxAbs", "ld_reg", "Absolute", "X">>, <<"LdxAbsY", "ld_reg", "AbsoluteY", "X">>,
      <<"LdyI", "ld_reg", "Immediate", "Y">>, <<"LdyZp", "ld_reg", "ZeroPage", "Y">>,
      <<"LdyZpX", "ld_reg", "ZeroPageX", "Y">>, <<"LdyAbs", "ld_reg", "Absolute", "Y">>,
      <<"LdyAbsX", "ld_reg", "AbsoluteY", "Y">>, <<"LsrAccum", "lsr", "Accumulator", "-">>,
      <<"LsrZp", "lsr", "ZeroPage", "-">>, <<"LsrZpX", "lsr", "ZeroPageX", "-">>,
      <<"LsrAbs", "lsr", "Absolute", "-">>, <<"LsrAbsX", "lsr", "AbsoluteX", "-">>,
      <<"Nop", "nop", "-", "-">>, <<"ORI", "or", "Immediate", "-">>,
      <<"ORZp", "or", "ZeroPage", "-">>, <<"ORZpX", "or", "ZeroPageX", "-">>,
      <<"ORAbs", "or", "Absolute", "-">>, <<"ORAbsX", "or", "AbsoluteX", "-">>,
      <<"ORAbsY", "or", "AbsoluteY", "-">>, <<"ORIndX", "or", "IndirectX", "-">>,
      <<"ORIndY", "or", "IndirectY", "-">>, <<"Pha", "push_stack", "rega", "-">>,
      <<"Php", "save_status", "-", "-">>, <<"Pla", "pull_register", "true", "-">>,
      <<"Plp", "pull_register", "false", "-">>, <<"RolAccum", "ror_or_rol", "Accumulator", "false">>,
      <<"RolZp", "ror_or_rol", "ZeroPage", "false">>, <<"RolZpX", "ror_or_rol", "ZeroPageX", "false">>,
      <<"RolAbs", "ror_or_rol", "Absolute", "false">>, <<"RolAbsX", "ror_or_rol", "AbsoluteX", "false">>,
      <<"RorAccum", "ror_or_rol", "Accumulator", "true">>, <<"RorZp", "ror_or_rol", "ZeroPage", "true">>,
      <<"RorZpX", "ror_or_rol", "ZeroPageX", "true">>, <<"RorAbs", "ror_or_rol", "Absolute", "true">>,
      <<"RorAbsX", "ror_or_rol", "AbsoluteX", "true">>, <<"Rti", "rti", "-", "-">>,
      <<"Rts", "rti", "-", "-">>, <<"SbcI", "sbc", "Immediate", "-">>,
      <<"SbcZp", "sbc", "ZeroPage", "-">>, <<"SbcZpX", "sbc", "ZeroPageX", "-">>,
      <<"SbcAbs", "sbc", "Absolute", "-">>, <<"SbcAbsX", "sbc", "AbsoluteX", "-">>,
      <<"SbcAbsY", "sbc", "AbsoluteY", "-">>, <<"SbcIndX", "sbc", "IndirectX", "-">>,
      <<"SbcIndY", "sbc", "IndirectY", "-">>, <<"Sec", "flags.carry", "true", "-">>,
      <<"Sed", "flags.decimal", "true", "-">>, <<"Sei", "flags.inter_disable", "true", "-">>,
      <<"StaZp", "store_reg", "ZeroPage", "A">>, <<"StaZpX", "store_reg", "ZeroPageX", "A">>,
      <<"StaAbs", "store_reg", "Absolute", "A">>, <<"StaAbsX", "store_reg", "AbsoluteX", "A">>,
      <<"StaAbsY", "store_reg", "AbsoluteY", "A">>, <<"StaIndX", "store_reg", "IndirectX", "A">>,
      <<"StaIndY", "store_reg", "IndirectY", "A">>, <<"StxZp", "store_reg", "ZeroPage", "X">>,
      <<"StxZpY", "store_reg", "ZeroPageY", "X">>, <<"StxAbs", "store_reg", "Absolute", "X">>,
      <<"StyZp", "store_reg", "ZeroPage", "Y">>, <<"StyZpX", "store_reg", "ZeroPageX", "Y">>,
      <<"StyAbs", "store_reg", "Absolute", "Y">>, <<"Tax", "transfer_reg", "A", "X">>,
      <<"Tay", "transfer_reg", "A", "Y">>, <<"Tsx", "transfer_reg", "S", "X">>,
      <<"Txa", "transfer_reg", "X", "A">>, <<"Txs", "transfer_reg", "X", "S">>,
      <<"Tya", "transfer_reg", "Y", "A">> }

ArmOf(op) == CHOOSE a \in Arms : a[1] = op

exec_instruction(c, op) ==
    IF op \notin AllOps THEN Panic(c, "opcode")
    ELSE
    LET a  == ArmOf(op)
        h  == a[2]
        a1 == a[3]
        a2 == a[4]
    IN  CASE h = "adc"          -> adc(c, a1)
          [] h = "and"          -> and(c, a1)
          [] h = "asl"          -> asl(c, a1)
          [] h = "bcc_or_bcs"   -> bcc_or_bcs(c, a1 = "true")
          [] h = "beq_or_bne"   -> beq_or_bne(c, a1 = "true")
          [] h = "bmi"          -> bmi(c)
          [] h = "bpl"          -> bpl(c)
          [] h = "bvs_or_bvc"   -> bvs_or_bvc(c, a1 = "true")
          [] h = "bit"          -> bit(c, a1)
          [] h = "brk"          -> brk(c)
          [] h = "flags.carry"         -> SetFlag(c, "carry", a1 = "true")
          [] h = "flags.decimal"       -> SetFlag(c, "decimal", a1 = "true")
          [] h = "flags.inter_disable" -> SetFlag(c, "inter_disable", a1 = "true")
          [] h = "flags.overflow"      -> SetFlag(c, "overflow", a1 = "true")
          [] h = "cmp"          -> cmp(c, a1, a2)
          [] h = "dec"          -> dec(c, a1)
          [] h = "dec_reg"      -> dec_reg(c, a1)
          [] h = "eor"          -> eor(c, a1)
          [] h = "inc"          -> inc(c, a1)
          [] h = "inc_reg"      -> inc_reg(c, a1)
          [] h = "jmp"          -> jmp(c, a1)
          [] h = "jsr"          -> jsr(c)
          [] h = "ld_reg"       -> ld_reg(c, a1, a2)
          [] h = "lsr"          -> lsr(c, a1)
          [] h = "nop"          -> c
          [] h = "or"           -> or(c, a1)
          [] h = "push_stack"   -> push_stack(c, c.rega)
          [] h = "save_status"  -> save_status(c)
          [] h = "pull_register" -> pull_register(c, a1 = "true")
          [] h = "ror_or_rol"   -> ror_or_rol(c, a1, a2 = "true")
          [] h = "rti"          -> rti(c)
          [] h = "sbc"          -> sbc(c, a1)
          [] h = "store_reg"    -> store_reg(c, a1, a2)
          [] h = "transfer_reg" -> transfer_reg(c, a1, a2)

----------------------------------------------------------------------------
(* The calls a host or a test makes on the Cpu.  Each one is recorded in   *)
(* history with the Cpu it was made on (pre) and the value it returned.    *)

Begin(c) == [c EXCEPT !.log = <<>>]

Do(op, arg, result) ==
    /\ ~Panicked(cpu)
    /\ \E r \in {result} :
          /\ cpu' = r.c
          /\ history' = Append(history,
                               [op |-> op, arg |-> arg, pre |-> cpu, ret |-> r.val])
    /\ UNCHANGED overflow_checks

\* The Cpu after the i-th call.
Post(i) == IF i < Len(history) THEN history[i + 1].pre ELSE cpu

ExecInstruction(op) ==
    \E c \in {Begin(cpu)} : Do(op, 0, Ret(exec_instruction(c, op), 0))

PushStack(item) ==
    \E c \in {Begin(cpu)} : Do("push_stack", item, Ret(push_stack(c, item), 0))

PopStack == \E c \in {Begin(cpu)} : Do("pop_stack", 0, pop_stack(c))

PeekStack == \E c \in {Begin(cpu)} : Do("peek_stack", 0, peek_stack(c))

----------------------------------------------------------------------------
(* SpecStack: push_stack, pop_stack and peek_stack called on a Cpu whose   *)
(* stack pointer is any byte (TXS sets it to any value of X).              *)

MaxStackOps == 4

PushValues == {66, 7}

InitStack ==
    /\ overflow_checks \in BOOLEAN
    /\ history = <<>>
    /\ \E s \in Byte, x \in {0, 255} : cpu = [Cpu_new EXCEPT !.sp = s, !.regx = x]

NextStack ==
    /\ Len(history) < MaxStackOps
    /\ \/ \E item \in PushValues : PushStack(item)
       \/ PopStack
       \/ PeekStack
       \/ ExecInstruction("Txs")

SpecStack == InitStack /\ [][NextStack]_vars

----------------------------------------------------------------------------
(* SpecFlags: Flags::to_u8 and Flags::from applied to every Flags value    *)
(* and every byte, and each to the result of the other.                    *)

MaxFlagOps == 3

CallToU8 == Do("to_u8", 0, Ret(Begin(cpu), to_u8(cpu.flags)))

CallFlagsFrom(val) ==
    Do("Flags_from", val, Ret([Begin(cpu) EXCEPT !.flags = Flags_from(val)], 0))

InitFlags ==
    /\ overflow_checks \in BOOLEAN
    /\ history = <<>>
    /\ \E f \in AllFlags : cpu = [Cpu_new EXCEPT !.flags = f]

NextFlags ==
    /\ Len(history) < MaxFlagOps
    /\ \/ CallToU8
       \/ /\ history = <<>>
          /\ \E val \in Byte : CallFlagsFrom(val)
       \/ /\ history # <<>>
          /\ history[Len(history)].op = "to_u8"
          /\ CallFlagsFrom(history[Len(history)].ret)

SpecFlags == InitFlags /\ [][NextFlags]_vars

----------------------------------------------------------------------------
(* SpecAlu: ADC and SBC with an immediate operand, for every accumulator,  *)
(* every operand byte and both values of the carry flag.  As in the tests, *)
(* the operand is the byte after pc.                                       *)

MaxAluOps == 1

AluOps == {"AdcI", "SbcI"}

InitAlu ==
    /\ overflow_checks \in BOOLEAN
    /\ history = <<>>
    /\ \E a \in Byte, m \in Byte, carry \in BOOLEAN :
          cpu = [Cpu_new EXCEPT !.rega = a, !.memory = MemWrite(@, 1, m),
                                !.flags.carry = carry]

NextAlu ==
    /\ Len(history) < MaxAluOps
    /\ \E op \in AluOps : ExecInstruction(op)

SpecAlu == InitAlu /\ [][NextAlu]_vars

----------------------------------------------------------------------------
(* SpecCall: the instructions that use the stack and the stack helpers    *)
(* themselves, on a Cpu the host has loaded: pc, sp, the accumulator, the  *)
(* flags, the two operand bytes after pc and the BRK vector.               *)

MaxCallOps == 2

CallOps == {"Jsr", "Rts", "Rti", "Brk", "Pha", "Php", "Pla", "Plp"}

CallPcs == {0, 9027, 13398}

CallSps == {255, 128, 2, 1}

CallFlags ==
    {Flags_new,
     [Flags_new EXCEPT !.carry = TRUE, !.negative = TRUE],
     [Flags_new EXCEPT !.zero = TRUE, !.overflow = TRUE, !.decimal = TRUE,
                       !.inter_disable = TRUE, !.break1 = TRUE]}

InitCall ==
    /\ overflow_checks \in BOOLEAN
    /\ history = <<>>
    /\ \E p \in CallPcs, s \in CallSps, f \in CallFlags :
          cpu = [Cpu_new EXCEPT
                   !.pc = p, !.sp = s, !.flags = f, !.rega = 171,
                   !.memory = MemWrite(MemWrite(MemWrite(MemWrite(@,
                                  p + 1, 18), p + 2, 52), 65534, 152), 65535, 69)]

NextCall ==
    /\ Len(history) < MaxCallOps
    /\ \/ \E op \in CallOps : ExecInstruction(op)
       \/ \E item \in PushValues : PushStack(item)
       \/ PopStack
       \/ PeekStack

SpecCall == InitCall /\ [][NextCall]_vars

----------------------------------------------------------------------------
(* What the calls recorded in history did.                                 *)

\* The i-th call returned: it did not panic.
Returned(i) == ~Panicked(Post(i))

\* The i-th and the next call were op1 and op2, with nothing in between.
Pair(i, op1, op2) ==
    /\ i + 1 <= Len(history)
    /\ history[i].op = op1
    /\ history[i + 1].op = op2

\* The bytes a plain LIFO stack holds after the first k calls, the last
\* pushed byte last; a pop of the empty stack leaves it empty.
RECURSIVE ShadowStack(_)
ShadowStack(k) ==
    IF k = 0 THEN <<>>
    ELSE LET h == history[k]
             s == ShadowStack(k - 1)
         IN  CASE h.op = "push_stack" -> Append(s, h.arg)
               [] h.op = "pop_stack" /\ s # <<>> -> SubSeq(s, 1, Len(s) - 1)
               [] OTHER -> s

\* The first k calls are pushes, pops and peeks only, and every pop among
\* them has an earlier push to match.
Balanced(k) ==
    \A j \in 1..k :
       /\ history[j].op \in {"push_stack", "pop_stack", "peek_stack"}
       /\ history[j].op = "pop_stack" => ShadowStack(j - 1) # <<>>

\* The operand of an immediate-mode instruction: the byte after pc.
ImmediateOperand(c) == MemRead(c.memory, c.pc + 1)

CarryIn(c) == IF c.flags.carry THEN 1 ELSE 0

----------------------------------------------------------------------------
(* The claims.                                                             *)

\* C1: JSR and then RTS leave pc at the address of the JSR opcode plus 3
\* and sp at its value before the JSR.
C1_JsrRtsReturns ==
    \A i \in 1..Len(history) :
       Pair(i, "Jsr", "Rts") =>
          /\ Returned(i + 1)
          /\ Post(i + 1).pc = (history[i].pre.pc + 3) % 65536
          /\ Post(i + 1).sp = history[i].pre.sp

\* C2: BRK and then RTI, when both return, restore pc to the value BRK
\* saved, every flag other than break1 and break2 to its value before the
\* BRK, and sp to its value before the BRK.
C2_BrkRtiRestores ==
    \A i \in 1..Len(history) :
       (Pair(i, "Brk", "Rti") /\ Returned(i + 1)) =>
          LET before == history[i].pre
              after  == Post(i + 1)
          IN  /\ after.pc = before.pc
              /\ after.sp = before.sp
              /\ \A f \in {"carry", "zero", "inter_disable", "decimal",
                           "overflow", "negative"} :
                    after.flags[f] = before.flags[f]

\* C2's case: a BRK at 0x2343 with flags set, at sp = 0x80, and its RTI.
C2_Witness ==
    /\ Len(history) = 2
    /\ Pair(1, "Brk", "Rti")
    /\ Returned(2)
    /\ history[1].pre.pc = 9027
    /\ history[1].pre.sp = 128
    /\ history[1].pre.flags.carry
    /\ history[2].pre.pc = 17816
    /\ cpu.pc = 9027

\* C3: from any sp in 0..255, every call of a balanced sequence of pushes
\* and pops returns, each pop returns the byte of its matching push, sp is
\* back at its first value whenever every push has been popped, and a peek
\* right after push_stack(x) returns x and leaves sp alone.
C3_StackIsLifo ==
    \A k \in 1..Len(history) :
       Balanced(k) =>
          /\ Returned(k)
          /\ history[k].op = "pop_stack" =>
                history[k].ret = ShadowStack(k - 1)[Len(ShadowStack(k - 1))]
          /\ ShadowStack(k) = <<>> => Post(k).sp = history[1].pre.sp
          /\ (k > 1 /\ Pair(k - 1, "push_stack", "peek_stack")) =>
                /\ history[k].ret = history[k - 1].arg
                /\ Post(k).sp = Post(k - 1).sp

\* C4: push_stack(b) stores b at 0x0100 + sp, pop_stack returns the byte at
\* 0x0100 + sp + 1, and every stack read and write of every call is
\* addressed to page 1.
C4_StackInPageOne ==
    /\ \A n \in 1..Len(cpu.log) :
          cpu.log[n][1] \in {"stack_read", "stack_write"} =>
             cpu.log[n][2] \in 256..511
    /\ \A k \in 1..Len(history) :
          /\ (history[k].op = "push_stack" /\ Returned(k)) =>
                MemRead(Post(k).memory, 256 + history[k].pre.sp) = history[k].arg
          /\ (history[k].op = "pop_stack" /\ Returned(k)) =>
                history[k].ret = MemRead(history[k].pre.memory,
                                         256 + ((history[k].pre.sp + 1) % 256))

\* C5: sp is a byte in every state, push_stack at sp = 0 leaves sp = 0xFF
\* and pop_stack at sp = 0xFF leaves sp = 0.
C5_SpWraps ==
    /\ cpu.sp \in Byte
    /\ \A k \in 1..Len(history) :
          /\ (history[k].op = "push_stack" /\ history[k].pre.sp = 0) =>
                (Returned(k) /\ Post(k).sp = 255)
          /\ (history[k].op = "pop_stack" /\ history[k].pre.sp = 255) =>
                (Returned(k) /\ Post(k).sp = 0)

\* C6: to_u8 of Flags::from(b) is b for every byte b, and Flags::from of
\* f.to_u8() is f, field by field, for every Flags value f.
C6_RoundTrip ==
    \A i \in 1..Len(history) :
       /\ Pair(i, "Flags_from", "to_u8") => history[i + 1].ret = history[i].arg
       /\ Pair(i, "to_u8", "Flags_from") =>
             \A f \in DOMAIN Flags_new : Post(i + 1).flags[f] = history[i].pre.flags[f]

\* C6's case: 0x65 unpacked, the Flags packed again, and that byte unpacked
\* again: both round trips, through Flags with break1 set and break2 clear.
C6_Witness ==
    /\ Len(history) = 3
    /\ Pair(1, "Flags_from", "to_u8")
    /\ Pair(2, "to_u8", "Flags_from")
    /\ history[1].arg = 101
    /\ history[2].pre.flags.break1
    /\ ~history[2].pre.flags.break2
    /\ history[2].ret = 101
    /\ cpu.flags = history[2].pre.flags

\* The layout of a packed byte b and a Flags value f with break1 at bit b1
\* and break2 at bit b2, the other six flags where to_u8 puts them.
Layout(b, f, b1, b2) ==
    /\ f.negative      = (BitOf(b, 7) = 1)
    /\ f.overflow      = (BitOf(b, 6) = 1)
    /\ f.break1        = (BitOf(b, b1) = 1)
    /\ f.break2        = (BitOf(b, b2) = 1)
    /\ f.decimal       = (BitOf(b, 3) = 1)
    /\ f.inter_disable = (BitOf(b, 2) = 1)
    /\ f.zero          = (BitOf(b, 1) = 1)
    /\ f.carry         = (BitOf(b, 0) = 1)

\* Every to_u8 and every Flags::from of history has the layout.
PacksWith(b1, b2) ==
    \A i \in 1..Len(history) :
       /\ history[i].op = "to_u8" =>
             Layout(history[i].ret, history[i].pre.flags, b1, b2)
       /\ history[i].op = "Flags_from" =>
             Layout(history[i].arg, Post(i).flags, b1, b2)

\* C7, as the code has it: to_u8 packs and Flags::from unpacks with
\* negative = bit 7, overflow = bit 6, break1 = bit 5, break2 = bit 4,
\* decimal = bit 3, inter_disable = bit 2, zero = bit 1, carry = bit 0.
C7_LayoutOfTheCode == PacksWith(5, 4)

\* C7, as stated: the same layout with break2 = bit 5 and break1 = bit 4.
C7_LayoutAsStated == PacksWith(4, 5)

\* C7's case: Flags with break1 alone packs to 0x20, and 0x20 unpacks to
\* Flags with break1 alone.
C7_Witness ==
    /\ Len(history) = 2
    /\ Pair(1, "to_u8", "Flags_from")
    /\ history[1].pre.flags = [Flags_new EXCEPT !.break1 = TRUE]
    /\ history[1].ret = 32
    /\ history[2].arg = 32
    /\ cpu.flags = [Flags_new EXCEPT !.break1 = TRUE]

\* C8: for every accumulator A, operand M and carry C, ADC returns with
\* rega = (A + M + C) mod 256 and carry = (A + M + C >= 256).
C8_AdcNineBitSum ==
    \A i \in 1..Len(history) :
       history[i].op = "AdcI" =>
          LET sum == history[i].pre.rega + ImmediateOperand(history[i].pre)
                     + CarryIn(history[i].pre)
          IN  /\ Returned(i)
              /\ Post(i).rega = sum % 256
              /\ Post(i).flags.carry = (sum >= 256)

\* C9: after an ADC that returns, the overflow flag is
\* ((A xor R) and (M xor R) and 0x80) != 0, where A is the accumulator
\* before the ADC, M the operand and R = (A + M + C) mod 256.
C9_AdcOverflowFlag ==
    \A i \in 1..Len(history) :
       (history[i].op = "AdcI" /\ Returned(i)) =>
          LET A == history[i].pre.rega
              M == ImmediateOperand(history[i].pre)
              R == (A + M + CarryIn(history[i].pre)) % 256
          IN  Post(i).flags.overflow =
                 (BitAnd(BitAnd(BitXor(A, R), BitXor(M, R)), 128) # 0)

\* C9's case: 80 + 80 overflows into the sign bit (test_adci_overflow_true).
C9_Witness ==
    /\ Len(history) = 1
    /\ history[1].op = "AdcI"
    /\ Returned(1)
    /\ history[1].pre.rega = 80
    /\ ImmediateOperand(history[1].pre) = 80
    /\ ~history[1].pre.flags.carry
    /\ cpu.rega = 160
    /\ cpu.flags.overflow

\* C10: for every accumulator A, operand M and carry C, SBC returns with
\* rega = (A - M - (1 - C)) mod 256, zero = (rega = 0) and negative = bit 7
\* of rega.
C10_SbcDifference ==
    \A i \in 1..Len(history) :
       history[i].op = "SbcI" =>
          LET diff == history[i].pre.rega - ImmediateOperand(history[i].pre)
                      - (1 - CarryIn(history[i].pre))
          IN  /\ Returned(i)
              /\ Post(i).rega = diff % 256
              /\ Post(i).flags.zero = (diff % 256 = 0)
              /\ Post(i).flags.negative = (diff % 256 >= 128)

----------------------------------------------------------------------------
(* SpecCompare: CMP, CPX, CPY and BIT, which set flags from a register and *)
(* an operand.  As in the tests pc = 0 and the operand bytes follow it.    *)
(* The immediate forms run on every register value and operand byte; the   *)
(* other modes run with the operand bytes that point at the loaded cells.  *)

MaxCompareOps == 1

CompareOps ==
    {"CmpI", "CmpZp", "CmpZpX", "CmpAbs", "CmpAbsX", "CmpAbsY", "CmpIndX", "CmpIndY",
     "CmpXI", "CmpXZp", "CmpXAbs", "CmpYI", "CmpYZp", "CmpYAbs"}

BitOps == {"BitZp", "BitAbs"}

ImmediateCompares == {"CmpI", "CmpXI", "CmpYI"}

\* The first operand bytes the modes other than Immediate are run with.
ComparePointers == {16, 80}

\* The cells the host has loaded, besides the operand bytes.
CompareCells == {<<16, 128>>, <<17, 3>>, <<80, 64>>, <<4112, 32>>, <<20496, 255>>}

CompareFlags ==
    [Flags_new EXCEPT !.overflow = TRUE, !.inter_disable = TRUE, !.break1 = TRUE]

InitCompare ==
    /\ overflow_checks \in BOOLEAN
    /\ history = <<>>
    /\ \E r \in Byte, m \in Byte :
          cpu = [Cpu_new EXCEPT
                   !.rega = r, !.regx = r, !.regy = r, !.flags = CompareFlags,
                   !.memory = [a \in ({1, 2} \cup {cell[1] : cell \in CompareCells}) \ 
                                     (IF m = 0 THEN {1} ELSE {}) |->
                                 CASE a = 1 -> m
                                   [] a = 2 -> 16
                                   [] OTHER -> (CHOOSE cell \in CompareCells : cell[1] = a)[2]]]

NextCompare ==
    /\ Len(history) < MaxCompareOps
    /\ \E op \in CompareOps \cup BitOps :
          /\ op \in ImmediateCompares \/ ImmediateOperand(cpu) \in ComparePointers
          /\ ExecInstruction(op)

SpecCompare == InitCompare /\ [][NextCompare]_vars

\* The address of the last byte a call read from the instruction stream or
\* from memory: where its operand was.
OperandAddress(log) ==
    LET reads == {n \in 1..Len(log) : log[n][1] \in {"fetch", "read"}}
    IN  log[CHOOSE n \in reads : \A k \in reads : k <= n][2]

\* The operand of the i-th call, an instruction that reads one.
OperandOf(i) == MemRead(history[i].pre.memory, OperandAddress(Post(i).log))

\* The register a compare instruction compares.
ComparedRegister(op) == ArmOf(op)[4]

C12_BitFlags ==
    \A i \in 1..Len(history) :
       history[i].op \in BitOps =>
          /\ Returned(i)
          /\ Post(i).flags.zero = (BitAnd(history[i].pre.rega, OperandOf(i)) = 0)
          /\ Post(i).flags.negative = (BitOf(OperandOf(i), 7) = 1)
          /\ Post(i).flags.overflow = (BitOf(OperandOf(i), 6) = 1)
          /\ Post(i).rega = history[i].pre.rega

----------------------------------------------------------------------------
(* SpecBranch: the eight branches, for every displacement byte and every   *)
(* value of the four flags they test, low, in the middle and at the top of *)
(* the address space.                                                      *)

MaxBranchOps == 1

BranchOps == {"Bcc", "Bcs", "Beq", "Bne", "Bmi", "Bpl", "Bvc", "Bvs"}

BranchPcs == {0, 4096, 65440}

InitBranch ==
    /\ overflow_checks \in BOOLEAN
    /\ history = <<>>
    /\ \E p \in BranchPcs, d \in Byte, fc, fz, fn, fv \in BOOLEAN :
          cpu = [Cpu_new EXCEPT
                   !.pc = p, !.rega = 171, !.regx = 18, !.regy = 52,
                   !.flags = [Flags_new EXCEPT !.carry = fc, !.zero = fz,
                                               !.negative = fn, !.overflow = fv,
                                               !.decimal = TRUE],
                   !.memory = MemWrite(@, p + 1, d)]

NextBranch ==
    /\ Len(history) < MaxBranchOps
    /\ \E op \in BranchOps : ExecInstruction(op)

SpecBranch == InitBranch /\ [][NextBranch]_vars

\* The flag value each branch is taken on.
Polarity(op, f) ==
    CASE op = "Bcc" -> ~f.carry
      [] op = "Bcs" -> f.carry
      [] op = "Beq" -> f.zero
      [] op = "Bne" -> ~f.zero
      [] op = "Bmi" -> f.negative
      [] op = "Bpl" -> ~f.negative
      [] op = "Bvc" -> ~f.overflow
      [] op = "Bvs" -> f.overflow

\* C13: a branch that returns has read exactly one byte, the displacement
\* after the opcode; it is taken exactly when its flag has its polarity;
\* not taken, pc is past the displacement byte; taken, pc has moved on from
\* there by the displacement (the low byte of the move is the displacement
\* byte; the direction is the subject of C14); flags, registers, sp and
\* memory are as before.
C13_BranchTakenWhen ==
    \A i \in 1..Len(history) :
       (history[i].op \in BranchOps /\ Returned(i)) =>
          LET op     == history[i].op
              before == history[i].pre
              after  == Post(i)
              next   == (before.pc + 1) % 65536
              d      == MemRead(before.memory, next)
              taken  == Polarity(op, before.flags)
          IN  /\ after.log = <<<<"fetch", next>>>>
              /\ ~taken => after.pc = next
              /\ taken => /\ (after.pc - next - d) % 256 = 0
                          /\ d # 0 => after.pc # next
              /\ after.flags = before.flags
              /\ after.memory = before.memory
              /\ after.rega = before.rega
              /\ after.regx = before.regx
              /\ after.regy = before.regy
              /\ after.sp = before.sp

\* C13's case: BVC at 0x1000 with overflow clear and displacement 5 is
\* taken, with the other three flags set.
C13_Witness ==
    /\ Len(history) = 1
    /\ history[1].op = "Bvc"
    /\ Returned(1)
    /\ history[1].pre.pc = 4096
    /\ ~history[1].pre.flags.overflow
    /\ history[1].pre.flags.carry
    /\ MemRead(history[1].pre.memory, 4097) = 5
    /\ cpu.pc = 4102

\* C14: a taken branch with displacement byte d returns with pc =
\* (pc after the displacement byte + d) mod 65536 when d < 0x80 and
\* (pc after the displacement byte + d - 256) mod 65536 when d >= 0x80.
C14_SignedDisplacement ==
    \A i \in 1..Len(history) :
       (history[i].op \in BranchOps /\ Polarity(history[i].op, history[i].pre.flags)) =>
          LET next == (history[i].pre.pc + 1) % 65536
              d    == MemRead(history[i].pre.memory, next)
          IN  /\ Returned(i)
              /\ Post(i).pc = (next + (IF d >= 128 THEN d - 256 ELSE d)) % 65536

----------------------------------------------------------------------------
(* SpecDecode: a host decodes a byte with FromPrimitive::from_u8 and, when *)
(* the byte has a variant, executes it.  Every byte is decoded and every   *)
(* variant executed, in the middle and at the top of the address space,    *)
(* with low and with all-ones operand bytes, at both ends of the stack.    *)

MaxDecodeOps == 2

DecodePcs == {512, 65535}

DecodeOperands == {<<16, 32>>, <<255, 255>>}

DecodeSps == {255, 0}

InitDecode ==
    /\ overflow_checks \in BOOLEAN
    /\ history = <<>>
    /\ \E p \in DecodePcs, b \in DecodeOperands, s \in DecodeSps :
          cpu = [Cpu_new EXCEPT
                   !.pc = p, !.sp = s, !.rega = 65, !.regx = 3, !.regy = 5,
                   !.flags.carry = TRUE,
                   !.memory = MemWrite(MemWrite(MemWrite(@, (p + 1) % 65536, b[1]),
                                  (p + 2) % 65536, b[2]), 16, 48)]

FromU8(byte) ==
    /\ IF history = <<>> THEN TRUE ELSE history[Len(history)].op # "from_u8"
    /\ Do("from_u8", byte, Ret(Begin(cpu), Ops_from_u8(byte)))

ExecDecoded ==
    /\ history # <<>>
    /\ history[Len(history)].op = "from_u8"
    /\ history[Len(history)].ret # "None"
    /\ ExecInstruction(history[Len(history)].ret)

NextDecode ==
    /\ Len(history) < MaxDecodeOps
    /\ \/ \E byte \in Byte : FromU8(byte)
       \/ ExecDecoded

SpecDecode == InitDecode /\ [][NextDecode]_vars

\* The published 6502 opcode map: each legal opcode byte with the handler
\* of its mnemonic and the arguments its addressing mode and register make,
\* in the form of Arms.  RTS alone has no handler of its own in cpu.rs.
PublishedArms ==
    { <<0, "brk", "-", "-">>, <<1, "or", "IndirectX", "-">>, <<5, "or", "ZeroPage", "-">>,
      <<6, "asl", "ZeroPage", "-">>, <<8, "save_status", "-", "-">>,
      <<9, "or", "Immediate", "-">>, <<10, "asl", "Accumulator", "-">>,
      <<13, "or", "Absolute", "-">>, <<14, "asl", "Absolute", "-">>, <<16, "bpl", "-", "-">>,
      <<17, "or", "IndirectY", "-">>, <<21, "or", "ZeroPageX", "-">>,
      <<22, "asl", "ZeroPageX", "-">>, <<24, "flags.carry", "false", "-">>,
      <<25, "or", "AbsoluteY", "-">>, <<29, "or", "AbsoluteX", "-">>,
      <<30, "asl", "AbsoluteX", "-">>, <<32, "jsr", "-", "-">>, <<33, "and", "IndirectX", "-">>,
      <<36, "bit", "ZeroPage", "-">>, <<37, "and", "ZeroPage", "-">>,
      <<38, "ror_or_rol", "ZeroPage", "false">>, <<40, "pull_register", "false", "-">>,
      <<41, "and", "Immediate", "-">>, <<42, "ror_or_rol", "Accumulator", "false">>,
      <<44, "bit", "Absolute", "-">>, <<45, "and", "Absolute", "-">>,
      <<46, "ror_or_rol", "Absolute", "false">>, <<48, "bmi", "-", "-">>,
      <<49, "and", "IndirectY", "-">>, <<53, "and", "ZeroPageX", "-">>,
      <<54, "ror_or_rol", "ZeroPageX", "false">>, <<56, "flags.carry", "true", "-">>,
      <<57, "and", "AbsoluteY", "-">>, <<61, "and", "AbsoluteX", "-">>,
      <<62, "ror_or_rol", "AbsoluteX", "false">>, <<64, "rti", "-", "-">>,
      <<65, "eor", "IndirectX", "-">>, <<69, "eor", "ZeroPage", "-">>,
      <<70, "lsr", "ZeroPage", "-">>, <<72, "push_stack", "rega", "-">>,
      <<73, "eor", "Immediate", "-">>, <<74, "lsr", "Accumulator", "-">>,
      <<76, "jmp", "Absolute", "-">>, <<77, "eor", "Absolute", "-">>,
      <<78, "lsr", "Absolute", "-">>, <<80, "bvs_or_bvc", "false", "-">>,
      <<81, "eor", "IndirectY", "-">>, <<85, "eor", "ZeroPageX", "-">>,
      <<86, "lsr", "ZeroPageX", "-">>, <<88, "flags.inter_disable", "false", "-">>,
      <<89, "eor", "AbsoluteY", "-">>, <<93, "eor", "AbsoluteX", "-">>,
      <<94, "lsr", "AbsoluteX", "-">>, <<96, "rts", "-", "-">>, <<97, "adc", "IndirectX", "-">>,
      <<101, "adc", "ZeroPage", "-">>, <<102, "ror_or_rol", "ZeroPage", "true">>,
      <<104, "pull_register", "true", "-">>, <<105, "adc", "Immediate", "-">>,
      <<106, "ror_or_rol", "Accumulator", "true">>, <<108, "jmp", "Indirect", "-">>,
      <<109, "adc", "Absolute", "-">>, <<110, "ror_or_rol", "Absolute", "true">>,
      <<112, "bvs_or_bvc", "true", "-">>, <<113, "adc", "IndirectY", "-">>,
      <<117, "adc", "ZeroPageX", "-">>, <<118, "ror_or_rol", "ZeroPageX", "true">>,
      <<120, "flags.inter_disable", "true", "-">>, <<121, "adc", "AbsoluteY", "-">>,
      <<125, "adc", "AbsoluteX", "-">>, <<126, "ror_or_rol", "AbsoluteX", "true">>,
      <<129, "store_reg", "IndirectX", "A">>, <<132, "store_reg", "ZeroPage", "Y">>,
      <<133, "store_reg", "ZeroPage", "A">>, <<134, "store_reg", "ZeroPage", "X">>,
      <<136, "dec_reg", "Y", "-">>, <<138, "transfer_reg", "X", "A">>,
      <<140, "store_reg", "Absolute", "Y">>, <<141, "store_reg", "Absolute", "A">>,
      <<142, "store_reg", "Absolute", "X">>, <<144, "bcc_or_bcs", "false", "-">>,
      <<145, "store_reg", "IndirectY", "A">>, <<148, "store_reg", "ZeroPageX", "Y">>,
      <<149, "store_reg", "ZeroPageX", "A">>, <<150, "store_reg", "ZeroPageY", "X">>,
      <<152, "transfer_reg", "Y", "A">>, <<153, "store_reg", "AbsoluteY", "A">>,
      <<154, "transfer_reg", "X", "S">>, <<157, "store_reg", "AbsoluteX", "A">>,
      <<160, "ld_reg", "Immediate", "Y">>, <<161, "ld_reg", "IndirectX", "A">>,
      <<162, "ld_reg", "Immediate", "X">>, <<164, "ld_reg", "ZeroPage", "Y">>,
      <<165, "ld_reg", "ZeroPage", "A">>, <<166, "ld_reg", "ZeroPage", "X">>,
      <<168, "transfer_reg", "A", "Y">>, <<169, "ld_reg", "Immediate", "A">>,
      <<170, "transfer_reg", "A", "X">>, <<172, "ld_reg", "Absolute", "Y">>,
      <<173, "ld_reg", "Absolute", "A">>, <<174, "ld_reg", "Absolute", "X">>,
      <<176, "bcc_or_bcs", "true", "-">>, <<177, "ld_reg", "IndirectY", "A">>,
      <<180, "ld_reg", "ZeroPageX", "Y">>, <<181, "ld_reg", "ZeroPageX", "A">>,
      <<182, "ld_reg", "ZeroPageY", "X">>, <<184, "flags.overflow", "false", "-">>,
      <<185, "ld_reg", "AbsoluteY", "A">>, <<186, "transfer_reg", "S", "X">>,
      <<188, "ld_reg", "AbsoluteX", "Y">>, <<189, "ld_reg", "AbsoluteX", "A">>,
      <<190, "ld_reg", "AbsoluteY", "X">>, <<192, "cmp", "Immediate", "Y">>,
      <<193, "cmp", "IndirectX", "A">>, <<196, "cmp", "ZeroPage", "Y">>,
      <<197, "cmp", "ZeroPage", "A">>, <<198, "dec", "ZeroPage", "-">>,
      <<200, "inc_reg", "Y", "-">>, <<201, "cmp", "Immediate", "A">>,
      <<202, "dec_reg", "X", "-">>, <<204, "cmp", "Absolute", "Y">>,
      <<205, "cmp", "Absolute", "A">>, <<206, "dec", "Absolute", "-">>,
      <<208, "beq_or_bne", "false", "-">>, <<209, "cmp", "IndirectY", "A">>,
      <<213, "cmp", "ZeroPageX", "A">>, <<214, "dec", "ZeroPageX", "-">>,
      <<216, "flags.decimal", "false", "-">>, <<217, "cmp", "AbsoluteY", "A">>,
      <<221, "cmp", "AbsoluteX", "A">>, <<222, "dec", "AbsoluteX", "-">>,
      <<224, "cmp", "Immediate", "X">>, <<225, "sbc", "IndirectX", "-">>,
      <<228, "cmp", "ZeroPage", "X">>, <<229, "sbc", "ZeroPage", "-">>,
      <<230, "inc", "ZeroPage", "-">>, <<232, "inc_reg", "X", "-">>,
      <<233, "sbc", "Immediate", "-">>, <<234, "nop", "-", "-">>,
      <<236, "cmp", "Absolute", "X">>, <<237, "sbc", "Absolute", "-">>,
      <<238, "inc", "Absolute", "-">>, <<240, "beq_or_bne", "true", "-">>,
      <<241, "sbc", "IndirectY", "-">>, <<245, "sbc", "ZeroPageX", "-">>,
      <<246, "inc", "ZeroPageX", "-">>, <<248, "flags.decimal", "true", "-">>,
      <<249, "sbc", "AbsoluteY", "-">>, <<253, "sbc", "AbsoluteX", "-">>,
      <<254, "inc", "AbsoluteX", "-">> }

\* C15: decoding a byte that is no legal 6502 opcode gives no variant, and
\* nothing runs: registers, flags, sp, pc and memory are as before, no cell
\* is accessed, and no instruction is executed next.
C15_IllegalOpcode ==
    \A i \in 1..Len(history) :
       (history[i].op = "from_u8"
        /\ history[i].arg \notin {e[1] : e \in PublishedArms}) =>
          /\ history[i].ret = "None"
          /\ Post(i) = Begin(history[i].pre)
          /\ i < Len(history) => history[i + 1].op = "from_u8"

\* C15's case: 0x02 has been decoded.
C15_Witness ==
    /\ Len(history) = 1
    /\ history[1].op = "from_u8"
    /\ history[1].arg = 2
    /\ history[1].ret = "None"
    /\ cpu.pc = 512
    /\ cpu.rega = 65

\* C16: every legal opcode byte has a variant, and executing it calls the
\* handler the published map gives the byte, with that entry's addressing
\* mode and register, and the handler accepts that mode.
C16_OpcodeMap ==
    \A i \in 1..Len(history) :
       (history[i].op = "from_u8"
        /\ history[i].arg \in {e[1] : e \in PublishedArms}) =>
          /\ history[i].ret # "None"
          /\ i < Len(history) =>
                /\ \E e \in PublishedArms :
                      /\ e[1] = history[i].arg
                      /\ ArmOf(history[i + 1].op) =
                            <<history[i + 1].op, e[2], e[3], e[4]>>
                /\ Post(i + 1).panic \notin {"addr_mode", "register", "opcode"}

\* C17: no instruction indexes memory outside 0..65535.
C17_AccessesInRange ==
    \A i \in 1..Len(history) :
       history[i].op \in AllOps =>
          /\ Post(i).panic # "bounds"
          /\ \A n \in 1..Len(Post(i).log) :
                Post(i).log[n][1] = "flags" \/ Post(i).log[n][2] \in 0..65535

----------------------------------------------------------------------------
(* SpecModify: the read-modify-write instructions (INC, DEC, the register  *)
(* increments and decrements, the shifts and the rotates) on every operand *)
(* byte and both values of the carry flag.  The operand is in A, X and Y   *)
(* and in the cells the zero-page and absolute operand bytes point at.     *)

MaxModifyOps == 1

StepOps == {"IncZp", "IncZpX", "IncAbs", "IncAbsX", "IncX", "IncY",
            "DecZp", "DecZpX", "DecAbs", "DecAbsX", "DecX", "DecY"}

ShiftOps == {"AslAccum", "AslZp", "AslZpX", "AslAbs", "AslAbsX",
             "LsrAccum", "LsrZp", "LsrZpX", "LsrAbs", "LsrAbsX",
             "RolAccum", "RolZp", "RolZpX", "RolAbs", "RolAbsX",
             "RorAccum", "RorZp", "RorZpX", "RorAbs", "RorAbsX"}

\* The index register of the indexed modes, when it is not the operand.
ModifyIndex == 3

\* The cells the operand is in: the operand bytes 16 32 give zero-page
\* address 16 and, as fetch_abs combines them, absolute address 16 * 256 + 32.
ModifyCells == {16, 16 + ModifyIndex, 4128, 4128 + ModifyIndex}

InitModify ==
    /\ overflow_checks \in BOOLEAN
    /\ history = <<>>
    /\ \E v \in Byte, carry \in BOOLEAN :
       \E x \in {v, ModifyIndex} :
          cpu = [Cpu_new EXCEPT
                   !.rega = v, !.regx = x, !.regy = v, !.flags.carry = carry,
                   !.memory = [a \in {1, 2} \cup (IF v = 0 THEN {} ELSE ModifyCells) |->
                                 CASE a = 1 -> 16
                                   [] a = 2 -> 32
                                   [] OTHER -> v]]

NextModify ==
    /\ Len(history) < MaxModifyOps
    /\ \E op \in StepOps \cup ShiftOps : ExecInstruction(op)

SpecModify == InitModify /\ [][NextModify]_vars

\* The operand of the i-th call, a read-modify-write instruction, as it is
\* in the Cpu c: a register, or the cell the call read.
ModifiedIn(c, i) ==
    LET target == ArmOf(history[i].op)[3]
    IN  IF target \in {"X", "Y"} THEN RegOf(c, target)
        ELSE IF target = "Accumulator" THEN c.rega
        ELSE MemRead(c.memory, OperandAddress(Post(i).log))

\* C18: INC, DEC, INX, INY, DEX and DEY complete without failure for every
\* operand value, leave (operand + 1) mod 256 or (operand - 1) mod 256 in
\* the operand (0xFF + 1 = 0x00, 0x00 - 1 = 0xFF), and set Z when the
\* result is zero and N to its bit 7.
C18_StepWraps ==
    \A i \in 1..Len(history) :
        history[i].op \in StepOps =>
            /\ ~Panicked(Post(i))
            /\ LET old  == ModifiedIn(history[i].pre, i)
                   step == IF ArmOf(history[i].op)[2] \in {"inc", "inc_reg"} THEN 1 ELSE -1
                   res  == (old + step) % 256
               IN  /\ ModifiedIn(Post(i), i) = res
                   /\ Post(i).flags.zero = (res = 0)
                   /\ Post(i).flags.negative = (res >= 128)

\* C19: after an ASL, LSR, ROL or ROR that returns, on the accumulator or on
\* a memory operand alike, the operand holds (v << 1) mod 256, v >> 1,
\* ((v << 1) | C) mod 256 or (v >> 1) | (C << 7) for the operand v and the
\* carry C before; the carry is the bit shifted out (bit 7 for ASL and ROL,
\* bit 0 for LSR and ROR), Z is set when the result is zero and N is its
\* bit 7.
C19_ShiftAndRotate ==
    \A i \in 1..Len(history) :
        (history[i].op \in ShiftOps /\ Returned(i)) =>
            LET pre   == history[i].pre
                v     == ModifiedIn(pre, i)
                C     == CarryIn(pre)
                h     == ArmOf(history[i].op)[2]
                right == h = "lsr" \/ (h = "ror_or_rol" /\ ArmOf(history[i].op)[4] = "true")
                in    == IF h = "ror_or_rol" THEN C ELSE 0
                res   == IF right THEN (v \div 2) + 128 * in
                                  ELSE ((v * 2) % 256) + in
                out   == IF right THEN v % 2 = 1 ELSE v >= 128
            IN  /\ ModifiedIn(Post(i), i) = res
                /\ Post(i).flags.carry = out
                /\ Post(i).flags.zero = (res = 0)
                /\ Post(i).flags.negative = (res >= 128)

C21_JsrPushesHighThenLow ==
    \A i \in 1..Len(history) :
        (history[i].op = "Jsr" /\ Returned(i)) =>
            LET before == history[i].pre
                after  == Post(i)
                pushes == SelectSeq(after.log, LAMBDA e : e[1] = "stack_write")
                pushed == [n \in 1..Len(pushes) |-> MemRead(after.memory, pushes[n][2])]
                ret    == (before.pc - 1) % 65536
                b1     == MemRead(before.memory, (before.pc + 1) % 65536)
                b2     == MemRead(before.memory, (before.pc + 2) % 65536)
            IN  /\ Len(pushes) = 2
                /\ after.sp = before.sp - 2
                /\ pushed[1] = ret \div 256
                /\ pushed[2] = ret % 256
                /\ after.pc \in {b1 + 256 * b2, b2 + 256 * b1}
                /\ after.flags = before.flags
                /\ after.rega = before.rega
                /\ after.regx = before.regx
                /\ after.regy = before.regy

\* C22: an RTS that returns has popped exactly two bytes and moved sp up by
\* 2: the low byte first and then the high byte of an address; pc is that
\* address plus 1, mod 65536, and the flags are as before.
C22_RtsPopsTwoAddsOne ==
    \A i \in 1..Len(history) :
        (history[i].op = "Rts" /\ Returned(i)) =>
            LET before == history[i].pre
                after  == Post(i)
                pops   == SelectSeq(after.log, LAMBDA e : e[1] = "stack_read")
                popped == [n \in 1..Len(pops) |-> MemRead(before.memory, pops[n][2])]
            IN  /\ Len(pops) = 2
                /\ after.sp = before.sp + 2
                /\ after.pc = (popped[1] + 256 * popped[2] + 1) % 65536
                /\ after.flags = before.flags

----------------------------------------------------------------------------
(* SpecFrame: save_pc(false), pull_pc and BRK from every sp in 0..255,     *)
(* with pcs whose two bytes differ and pcs at both ends of the range; the  *)
(* host may overwrite pc after it was saved, as tests::test_pull_pc does.  *)

MaxFrameOps == 3

InitFrame ==
    /\ overflow_checks \in BOOLEAN
    /\ history = <<>>
    /\ \E p \in {0, 255, 13398, 17767, 65280, 65535}, s \in Byte, f \in CallFlags :
          cpu = [Cpu_new EXCEPT
                   !.pc = p, !.sp = s, !.flags = f,
                   !.memory = MemWrite(MemWrite(@, 65534, 152), 65535, 69)]

SavePc ==
    \E c \in {Begin(cpu)} : Do("save_pc", FALSE, Ret(save_pc(c, FALSE), 0))

PullPc ==
    \E c \in {Begin(cpu)} : Do("pull_pc", 0, Ret(pull_pc(c), 0))

\* cpu.pc = 0x3479, the assignment of tests::test_pull_pc
SetPc ==
    /\ IF history = <<>> THEN FALSE ELSE history[Len(history)].op = "save_pc"
    /\ \E c \in {Begin(cpu)} : Do("set_pc", 13433, Ret([c EXCEPT !.pc = 13433], 0))

NextFrame ==
    /\ Len(history) < MaxFrameOps
    /\ \/ SavePc
       \/ PullPc
       \/ SetPc
       \/ ExecInstruction("Brk")

SpecFrame == InitFrame /\ [][NextFrame]_vars

\* C23: from every pc and every sp in 0..255, save_pc(false) returns, and a
\* pull_pc that follows it, with or without pc overwritten in between,
\* returns with pc and sp at their values before the save_pc.
C23_SavePullRoundTrip ==
    \A i \in 1..Len(history) :
        history[i].op = "save_pc" =>
            /\ Returned(i)
            /\ \A k \in {i + 1, i + 2} :
                  (/\ k <= Len(history)
                   /\ history[k].op = "pull_pc"
                   /\ \A j \in (i + 1)..(k - 1) : history[j].op = "set_pc") =>
                      /\ Returned(k)
                      /\ Post(k).pc = history[i].pre.pc
                      /\ Post(k).sp = history[i].pre.sp

\* C28: after a BRK that returns, the cell at sp + 1 holds the flags as they
\* were before the BRK, packed, the cell at sp + 2 the high byte and the
\* cell at sp + 3 the low byte of pc as it was; after a save_pc(false) that
\* returns, the cell at sp + 1 holds the high byte of pc and the cell at
\* sp + 2 its low byte.
C28_FrameOnTheStack ==
    \A i \in 1..Len(history) :
        LET before == history[i].pre
            after  == Post(i)
            cell(n) == MemRead(after.memory, after.sp + n)
        IN  /\ (history[i].op = "Brk" /\ Returned(i)) =>
                  /\ cell(1) = to_u8(before.flags)
                  /\ cell(2) = before.pc \div 256
                  /\ cell(3) = before.pc % 256
            /\ (history[i].op = "save_pc" /\ Returned(i)) =>
                  /\ cell(1) = before.pc \div 256
                  /\ cell(2) = before.pc % 256

\* C28's case: tests::test_save_pc, save_pc(false) at pc = 0x3456 from
\* sp = 0xFF: 0x34 is on top of the stack and 0x56 above it.
C28_Witness ==
    /\ Len(history) = 1
    /\ history[1].op = "save_pc"
    /\ Returned(1)
    /\ history[1].pre.pc = 13398
    /\ history[1].pre.sp = 255
    /\ cpu.sp = 253
    /\ MemRead(cpu.memory, 254) = 52
    /\ MemRead(cpu.memory, 255) = 86

\* C24: there is one place for pc to be when a handler runs (d bytes past
\* the opcode byte of its instruction, at address a) for which every
\* instruction that returns fetches its n operand bytes from a + 1 .. a + n
\* and, unless it is a jump, a branch, JSR, RTS, RTI or BRK, leaves
\* pc = (a + 1 + n) mod 65536, at the next opcode byte; JMP absolute and JSR
\* leave pc at the address their operand bytes give and BRK at the address
\* in the vector.
C24_PcAtNextOpcode ==
    \E d \in {0, 1} :
      \A i \in 1..Len(history) :
        (history[i].op \in AllOps /\ Returned(i)) =>
            LET op      == history[i].op
                before  == history[i].pre
                after   == Post(i)
                a       == (before.pc - d) % 65536
                mode    == ArmOf(op)[3]
                n       == IF op = "Jsr" \/ mode \in {"Absolute", "AbsoluteX", "AbsoluteY",
                                                       "Indirect"} THEN 2
                           ELSE IF op \in BranchOps
                                   \/ mode \in {"Immediate", "ZeroPage", "ZeroPageX",
                                                "ZeroPageY", "IndirectX", "IndirectY"} THEN 1
                           ELSE 0
                fetches == SelectSeq(after.log, LAMBDA e : e[1] = "fetch")
                byte(k) == MemRead(before.memory, (a + k) % 65536)
            IN  /\ Len(fetches) = n
                /\ \A k \in 1..n : fetches[k][2] = (a + k) % 65536
                /\ op \notin BranchOps \cup {"JmpAbs", "JmpInd", "Jsr", "Rts", "Rti", "Brk"} =>
                      after.pc = (a + 1 + n) % 65536
                /\ op \in {"JmpAbs", "Jsr"} =>
                      after.pc \in {byte(1) + 256 * byte(2), byte(2) + 256 * byte(1)}
                /\ op = "Brk" =>
                      after.pc = MemRead(before.memory, 65534)
                                   + 256 * MemRead(before.memory, 65535)

\* C25: of the calls that return, PHA writes A and PHP the packed flags to
\* one stack cell and move sp down by 1; PLA reads one stack cell into A,
\* sets Z when it is zero and N to its bit 7, and PLP reads one into the
\* flags, both moving sp up by 1; PHA and then PLA leave A and sp, and PHP
\* and then PLP leave all eight flags and sp, as they were.
C25_PushPullRegisters ==
    \A i \in 1..Len(history) :
        LET op     == history[i].op
            before == history[i].pre
            after  == Post(i)
            writes == SelectSeq(after.log, LAMBDA e : e[1] = "stack_write")
            reads  == SelectSeq(after.log, LAMBDA e : e[1] = "stack_read")
            popped == MemRead(before.memory, reads[1][2])
        IN  /\ (op \in {"Pha", "Php"} /\ Returned(i)) =>
                  /\ Len(writes) = 1 /\ Len(reads) = 0
                  /\ MemRead(after.memory, writes[1][2])
                        = IF op = "Pha" THEN before.rega ELSE to_u8(before.flags)
                  /\ after.sp = before.sp - 1
                  /\ after.rega = before.rega
                  /\ after.flags = before.flags
            /\ (op \in {"Pla", "Plp"} /\ Returned(i)) =>
                  /\ Len(reads) = 1 /\ Len(writes) = 0
                  /\ after.sp = before.sp + 1
                  /\ op = "Pla" =>
                        /\ after.rega = popped
                        /\ after.flags = [before.flags EXCEPT !.zero = (popped = 0),
                                                              !.negative = (popped >= 128)]
                  /\ op = "Plp" =>
                        /\ to_u8(after.flags) = popped
                        /\ after.rega = before.rega
            /\ ((Pair(i, "Pha", "Pla") \/ Pair(i, "Php", "Plp")) /\ Returned(i + 1)) =>
                  /\ Post(i + 1).rega = before.rega
                  /\ Post(i + 1).flags = IF op = "Php" THEN before.flags ELSE Post(i + 1).flags
                  /\ Post(i + 1).sp = before.sp

\* C25's case: PHP with carry and negative set, from sp = 0xFF, and then
\* PLP: 0x81 is in the stack cell, the flags and sp are back.
C25_Witness ==
    /\ Len(history) = 2
    /\ Pair(1, "Php", "Plp")
    /\ Returned(2)
    /\ history[1].pre.sp = 255
    /\ history[1].pre.flags = [Flags_new EXCEPT !.carry = TRUE, !.negative = TRUE]
    /\ MemRead(cpu.memory, 255) = 129
    /\ cpu.sp = 255
    /\ cpu.flags = history[1].pre.flags

----------------------------------------------------------------------------
(* SpecMove: the register transfers, the stores and the jumps, with every  *)
(* byte in each register (the four registers differ), two flag states and  *)
(* the operand bytes of tests::test_sta and tests::test_jump_ind after pc. *)

MaxMoveOps == 1

MoveOps ==
    {"Tax", "Tay", "Tsx", "Txa", "Txs", "Tya",
     "StaZp", "StaZpX", "StaAbs", "StaAbsX", "StaAbsY", "StaIndX", "StaIndY",
     "StxZp", "StxZpY", "StxAbs", "StyZp", "StyZpX", "StyAbs",
     "JmpAbs", "JmpInd"}

InitMove ==
    /\ overflow_checks \in BOOLEAN
    /\ history = <<>>
    /\ \E v \in Byte, b \in {<<86, 99>>, <<1, 32>>},
          f \in {Flags_new, [Flags_new EXCEPT !.zero = TRUE, !.negative = TRUE,
                                              !.carry = TRUE]} :
          cpu = [Cpu_new EXCEPT
                   !.rega = v, !.regx = (v + 85) % 256, !.regy = (v + 170) % 256,
                   !.sp = (v + 14) % 256, !.flags = f,
                   !.memory = (1 :> b[1]) @@ (2 :> b[2]) @@ (288 :> 252) @@ (289 :> 186)]

NextMove ==
    /\ Len(history) < MaxMoveOps
    /\ \E op \in MoveOps : ExecInstruction(op)

SpecMove == InitMove /\ [][NextMove]_vars

\* C26: TAX, TAY, TSX, TXA and TYA put the source register's byte in the
\* destination, leave the source and the other registers as they were and
\* set Z when the byte is zero and N to its bit 7, changing no other flag;
\* TXS puts X in sp and changes no flag and no other register.
C26_Transfers ==
    \A i \in 1..Len(history) :
        (ArmOf(history[i].op)[2] = "transfer_reg" /\ Returned(i)) =>
            LET before == history[i].pre
                after  == Post(i)
                from   == ArmOf(history[i].op)[3]
                to     == ArmOf(history[i].op)[4]
                val    == RegOf(before, from)
            IN  /\ <<history[i].op, from, to>> \in
                      {<<"Tax", "A", "X">>, <<"Tay", "A", "Y">>, <<"Tsx", "S", "X">>,
                       <<"Txa", "X", "A">>, <<"Tya", "Y", "A">>, <<"Txs", "X", "S">>}
                /\ RegOf(after, to) = val
                /\ \A r \in {"A", "X", "Y", "S"} \ {to} : RegOf(after, r) = RegOf(before, r)
                /\ after.sp \in Byte
                /\ after.flags = IF to = "S" THEN before.flags
                                 ELSE [before.flags EXCEPT !.zero = (val = 0),
                                                           !.negative = (val >= 128)]
                /\ after.memory = before.memory
                /\ after.pc = before.pc

\* C26's case: tests::test_txs, TXS with X = 14 and Z, N set: sp = 14 and
\* the flags untouched.
C26_Witness ==
    /\ Len(history) = 1
    /\ history[1].op = "Txs"
    /\ history[1].pre.regx = 14
    /\ history[1].pre.sp = 199
    /\ history[1].pre.flags.zero
    /\ cpu.sp = 14
    /\ cpu.regx = 14
    /\ cpu.flags.zero /\ cpu.flags.negative

\* C27: a STA, STX or STY that returns has written one cell, the one at the
\* address its addressing mode resolved, with the source register, and has
\* changed no other cell, no register, not sp and no flag.
C27_StoresChangeOneCell ==
    \A i \in 1..Len(history) :
        (ArmOf(history[i].op)[2] = "store_reg" /\ Returned(i)) =>
            LET before == history[i].pre
                after  == Post(i)
                writes == SelectSeq(after.log, LAMBDA e : e[1] \in {"write", "stack_write"})
                source == CASE history[i].op \in {"StaZp", "StaZpX", "StaAbs", "StaAbsX",
                                                  "StaAbsY", "StaIndX", "StaIndY"} -> before.rega
                            [] history[i].op \in {"StxZp", "StxZpY", "StxAbs"} -> before.regx
                            [] OTHER -> before.regy
            IN  /\ Len(writes) = 1
                /\ \A a \in DOMAIN before.memory \cup DOMAIN after.memory \cup {writes[1][2]} :
                      MemRead(after.memory, a)
                         = IF a = writes[1][2] THEN source ELSE MemRead(before.memory, a)
                /\ after.rega = before.rega
                /\ after.regx = before.regx
                /\ after.regy = before.regy
                /\ after.sp = before.sp
                /\ after.flags = before.flags

\* C27's case: tests::test_sta, STA absolute with A = 45 and operand bytes
\* 0x56 0x63: 45 is in the cell the address resolved to and Z, N, set
\* before, are still set.
C27_Witness ==
    /\ Len(history) = 1
    /\ history[1].op = "StaAbs"
    /\ Returned(1)
    /\ history[1].pre.rega = 45
    /\ history[1].pre.flags.zero
    /\ ImmediateOperand(history[1].pre) = 86
    /\ cpu.log[Len(cpu.log)] = <<"write", 22115>>
    /\ MemRead(cpu.memory, 22115) = 45
    /\ cpu.flags.zero /\ cpu.flags.negative

\* C29: an instruction with Absolute addressing that returns has fetched two
\* operand bytes, and its effective address (where STA, STX and STY write
\* and where JMP leaves pc) is lo | (hi << 8) with lo the first byte fetched
\* and hi the second.
C29_AbsoluteLittleEndian ==
    \A i \in 1..Len(history) :
        (history[i].op \in {"StaAbs", "StxAbs", "StyAbs", "JmpAbs"} /\ Returned(i)) =>
            LET before  == history[i].pre
                after   == Post(i)
                fetches == SelectSeq(after.log, LAMBDA e : e[1] = "fetch")
                lo      == MemRead(before.memory, fetches[1][2])
                hi      == MemRead(before.memory, fetches[2][2])
                addr    == IF history[i].op = "JmpAbs" THEN after.pc
                           ELSE after.log[Len(after.log)][2]
            IN  /\ Len(fetches) = 2
                /\ addr = lo + 256 * hi

\* C30: for an instruction with Absolute addressing, and for the pointer of
\* JMP indirect, the first operand byte fetched is the high byte and the
\* second the low byte of the address; the target JMP indirect reads
\* through its pointer has its low byte at the pointer and its high byte at
\* pointer + 1.
C30_OperandHighByteFirst ==
    \A i \in 1..Len(history) :
        (history[i].op \in {"StaAbs", "StxAbs", "StyAbs", "JmpAbs", "JmpInd"} /\ Returned(i)) =>
            LET before  == history[i].pre
                after   == Post(i)
                fetches == SelectSeq(after.log, LAMBDA e : e[1] = "fetch")
                first   == MemRead(before.memory, fetches[1][2])
                second  == MemRead(before.memory, fetches[2][2])
                operand == 256 * first + second
            IN  /\ Len(fetches) = 2
                /\ history[i].op = "JmpAbs" => after.pc = operand
                /\ history[i].op \in {"StaAbs", "StxAbs", "StyAbs"} =>
                      after.log[Len(after.log)] = <<"write", operand>>
                /\ history[i].op = "JmpInd" =>
                      after.pc = MemRead(before.memory, operand)
                                   + 256 * MemRead(before.memory, operand + 1)

\* C30's case: tests::test_jump_ind, JMP indirect with operand bytes 0x01
\* 0x20 and 0xFC, 0xBA at 0x0120: pc = 0xBAFC.
C30_Witness ==
    /\ Len(history) = 1
    /\ history[1].op = "JmpInd"
    /\ Returned(1)
    /\ MemRead(history[1].pre.memory, 1) = 1
    /\ MemRead(history[1].pre.memory, 2) = 32
    /\ cpu.pc = 47868

\* C31: every instruction dispatched with AbsoluteX or AbsoluteY addressing
\* reads or writes a cell, and the first one is at (base + X) mod 65536,
\* respectively (base + Y) mod 65536, an address in 0..65535, where base is
\* the 16-bit address its two operand bytes give.
C31_AbsoluteIndexedWraps ==
    \A i \in 1..Len(history) :
        (history[i].op \in AllOps /\ ArmOf(history[i].op)[3] \in {"AbsoluteX", "AbsoluteY"}) =>
            LET before == history[i].pre
                after  == Post(i)
                index  == IF ArmOf(history[i].op)[3] = "AbsoluteX" THEN before.regx
                          ELSE before.regy
                b1     == MemRead(before.memory, (before.pc + 1) % 65536)
                b2     == MemRead(before.memory, (before.pc + 2) % 65536)
                access == SelectSeq(after.log, LAMBDA e : e[1] \in {"read", "write"})
            IN  /\ Len(access) >= 1
                /\ access[1][2] \in 0..65535
                /\ access[1][2] \in {(b1 + 256 * b2 + index) % 65536,
                                     (b2 + 256 * b1 + index) % 65536}

\* C32: every instruction dispatched with ZeroPageX or ZeroPageY addressing,
\* LDX and STX ZeroPage,Y among them, fetches one operand byte and then reads
\* or writes a cell, the first one at (operand byte + X) mod 256,
\* respectively (operand byte + Y) mod 256, an address in page 0.
C32_ZeroPageIndexedWraps ==
    \A i \in 1..Len(history) :
        (history[i].op \in AllOps /\ ArmOf(history[i].op)[3] \in {"ZeroPageX", "ZeroPageY"}) =>
            LET before  == history[i].pre
                after   == Post(i)
                index   == IF ArmOf(history[i].op)[3] = "ZeroPageX" THEN before.regx
                           ELSE before.regy
                fetches == SelectSeq(after.log, LAMBDA e : e[1] = "fetch")
                access  == SelectSeq(after.log, LAMBDA e : e[1] \in {"read", "write"})
            IN  /\ {"LdxZpY", "StxZpY"} \subseteq
                      {a[1] : a \in {x \in Arms : x[3] = "ZeroPageY"}}
                /\ Len(fetches) = 1
                /\ Len(access) >= 1
                /\ access[1][2] = (ImmediateOperand(before) + index) % 256

\* C33: an instruction with IndirectX or IndirectY addressing that returns
\* has read its operand at the 16-bit little-endian word stored at ptr
\* itself: read(ptr) | (read(ptr + 1) << 8), with ptr = (operand byte + X)
\* mod 256, respectively + Y.
C33_IndirectWordAtPointer ==
    \A i \in 1..Len(history) :
        (history[i].op \in {"CmpIndX", "CmpIndY"} /\ Returned(i)) =>
            LET before == history[i].pre
                index  == IF history[i].op = "CmpIndX" THEN before.regx ELSE before.regy
                ptr    == (ImmediateOperand(before) + index) % 256
                word(next) == MemRead(before.memory, ptr) + 256 * MemRead(before.memory, next)
            IN  OperandAddress(Post(i).log) \in {word(ptr + 1), word((ptr + 1) % 256)}

\* C34: an instruction with IndirectX or IndirectY addressing that returns
\* has resolved its address through two levels: with z = (operand byte + X)
\* mod 256, respectively + Y, and b = memory[z], it has read its operand at
\* memory[b] | (memory[b + 1] << 8).
C34_IndirectTwoLevels ==
    \A i \in 1..Len(history) :
        (history[i].op \in {"CmpIndX", "CmpIndY"} /\ Returned(i)) =>
            LET before == history[i].pre
                index  == IF history[i].op = "CmpIndX" THEN before.regx ELSE before.regy
                z      == (ImmediateOperand(before) + index) % 256
                b      == MemRead(before.memory, z)
            IN  OperandAddress(Post(i).log)
                   = MemRead(before.memory, b) + 256 * MemRead(before.memory, b + 1)

\* C34's case: CMP (indirect,X) with operand byte 0x10 and X = 0xF2: the
\* sum wraps to z = 0x02, memory[2] = 0x10 is b, and the operand is read at
\* memory[0x10] | memory[0x11] << 8 = 0x0380.
C34_Witness ==
    /\ Len(history) = 1
    /\ history[1].op = "CmpIndX"
    /\ Returned(1)
    /\ ImmediateOperand(history[1].pre) = 16
    /\ history[1].pre.regx = 242
    /\ MemRead(history[1].pre.memory, 2) = 16
    /\ OperandAddress(cpu.log) = 896

\* C35: a save_pc that returns has pushed the high byte of pc first and the
\* low byte second, so that the low byte is on top of the stack; a pull_pc
\* that returns has popped the low byte first and the high byte second and
\* left pc = low | (high << 8).
C35_SavePcHighFirst ==
    \A i \in 1..Len(history) :
        LET before == history[i].pre
            after  == Post(i)
            pushes == SelectSeq(after.log, LAMBDA e : e[1] = "stack_write")
            pops   == SelectSeq(after.log, LAMBDA e : e[1] = "stack_read")
        IN  /\ (history[i].op = "save_pc" /\ Returned(i)) =>
                  /\ Len(pushes) = 2
                  /\ MemRead(after.memory, pushes[1][2]) = before.pc \div 256
                  /\ MemRead(after.memory, pushes[2][2]) = before.pc % 256
                  /\ MemRead(after.memory, after.sp + 1) = before.pc % 256
            /\ (history[i].op = "pull_pc" /\ Returned(i)) =>
                  /\ Len(pops) = 2
                  /\ after.pc = MemRead(before.memory, pops[1][2])
                                  + 256 * MemRead(before.memory, pops[2][2])

\* C36: in every instruction that returns, JSR and BRK included, every
\* operand-byte fetch comes before the first read or write of memory or of
\* the stack, and every flag update comes after the last one.
C36_AccessOrder ==
    \A i \in 1..Len(history) :
        (history[i].op \in AllOps /\ Returned(i)) =>
            LET log      == Post(i).log
                at(kinds) == {n \in 1..Len(log) : log[n][1] \in kinds}
                accesses == at({"read", "write", "stack_read", "stack_write"})
            IN  /\ \A f \in at({"fetch"}), n \in accesses : f < n
                /\ \A f \in at({"flags"}), n \in accesses : n < f

\* C37: no instruction that from_u8 decodes ends in the invalid-mode failure
\* of get_address, asl, lsr or ror_or_rol, in the invalid-register failure
\* of inc_reg or dec_reg, or in the default arm of exec_instruction.
C37_NoInvalidModeFailure ==
    \A i \in 1..Len(history) :
        history[i].op \in AllOps =>
            Post(i).panic \notin {"addr_mode", "register", "opcode"}

----------------------------------------------------------------------------
(* SpecResult: every instruction that leaves a result byte and sets N and  *)
(* Z from it, in every addressing mode, with every byte in A, X and Y, in  *)
(* the cell the operand byte points at and on top of the stack, operand    *)
(* bytes at both ends and in the middle of the range, both values of the   *)
(* carry, and Z set beforehand.                                            *)

MaxResultOps == 1

ResultOps ==
    {a[1] : a \in {x \in Arms :
        \/ x[2] \in {"ld_reg", "and", "or", "eor", "adc", "sbc", "asl", "lsr",
                     "ror_or_rol", "inc", "dec", "inc_reg", "dec_reg"}
        \/ x[2] = "transfer_reg" /\ x[4] # "S"
        \/ x[2] = "pull_register" /\ x[3] = "true"}}

InitResult ==
    /\ overflow_checks \in BOOLEAN
    /\ history = <<>>
    /\ \E v \in Byte, m \in {0, 1, 128, 255}, carry \in BOOLEAN :
          cpu = [Cpu_new EXCEPT
                   !.rega = v, !.regx = v, !.regy = v, !.sp = 254,
                   !.flags.carry = carry, !.flags.zero = TRUE,
                   !.memory = MemWrite(MemWrite(MemWrite(@, 255, v), m, v), 1, m)]

NextResult ==
    /\ Len(history) < MaxResultOps
    /\ \E op \in ResultOps : ExecInstruction(op)

SpecResult == InitResult /\ [][NextResult]_vars

\* C38: after a load, AND, ORA, EOR, ADC, SBC, shift, rotate, increment,
\* decrement, transfer other than TXS, or PLA that returns, N is bit 7 of
\* the byte left in the destination register or memory cell and Z is set
\* exactly when that byte is zero.
C38_ResultSetsNZ ==
    \A i \in 1..Len(history) :
        (history[i].op \in ResultOps /\ Returned(i)) =>
            LET a  == ArmOf(history[i].op)
                r  == CASE a[2] \in {"ld_reg", "transfer_reg"} -> RegOf(Post(i), a[4])
                        [] a[2] \in {"and", "or", "eor", "adc", "sbc", "pull_register"}
                              -> Post(i).rega
                        [] OTHER -> ModifiedIn(Post(i), i)
            IN  /\ r \in Byte
                /\ Post(i).flags.negative = (r >= 128)
                /\ Post(i).flags.zero = (r = 0)

\* C38's case: LDA immediate of 0x80 with A = 0 and Z set: A = 0x80, N is
\* set and Z cleared.
C38_Witness ==
    /\ Len(history) = 1
    /\ history[1].op = "LdaI"
    /\ Returned(1)
    /\ history[1].pre.rega = 0
    /\ history[1].pre.flags.zero
    /\ ImmediateOperand(history[1].pre) = 128
    /\ cpu.rega = 128
    /\ cpu.flags.negative
    /\ ~cpu.flags.zero

\* C39: an SBC with operand M that returns leaves the same A, C, V, N and Z
\* as an ADC with operand (M xor 0xFF) started in the same state; its carry
\* is set exactly when no borrow occurred, A >= M + (1 - carry-in), and its
\* overflow flag exactly when the signed difference is outside -128..127.
C39_SbcIsAdcOfComplement ==
    \A i \in 1..Len(history) :
        (history[i].op = "SbcI" /\ Returned(i)) =>
            LET before == history[i].pre
                after  == Post(i)
                A      == before.rega
                M      == ImmediateOperand(before)
                signed(b) == IF b >= 128 THEN b - 256 ELSE b
                diff   == signed(A) - signed(M) - (1 - CarryIn(before))
                ref    == adc(Begin([before EXCEPT !.memory = MemWrite(@, 1, BitXor(M, 255))]),
                              "Immediate")
            IN  /\ ~Panicked(ref) =>
                      /\ after.rega = ref.rega
                      /\ \A f \in {"carry", "overflow", "negative", "zero"} :
                            after.flags[f] = ref.flags[f]
                /\ after.flags.carry = (A >= M + (1 - CarryIn(before)))
                /\ after.flags.overflow = (diff < -128 \/ diff > 127)

\* C40: in every state, break1 = break2.
C40_BreakFlagsTogether ==
    cpu.flags.break1 = cpu.flags.break2

====
